---- MODULE Spec2Model ----
(***************************************************************************)
(* Extraction pipeline of the synthesis scraper: the inference gateway     *)
(* (_extract_llm), the extraction dispatcher (extract_synthesis_data,      *)
(* _extract_dual, classify_image), the hybrid orchestration of             *)
(* process_paper and the clean-up of the command-line entry point.         *)
(*                                                                         *)
(* Response texts are sequences of lexical tokens.  A token is a record    *)
(* [k, v]: the braces, the comma, one character of commentary, a member    *)
(* with a scalar value ("key": value) or the key of an object-valued       *)
(* member ("key": followed by an object).  Dictionaries are functions from *)
(* key names to values; None is the value dict.get gives for a missing     *)
(* key; the JSON literals true and false are the values JTrue and JFalse.  *)
(***************************************************************************)
EXTENDS Integers, Sequences, FiniteSets, TLC

\* ------------------------------------------------------------------ bounds
MaxLen == 6         \* longest response text enumerated for the span search
MaxAttempts == 2    \* largest configured processing.retry_attempts
MaxImages == 2      \* most images harvested from one document
MaxPayload == 4     \* most images handed to one gateway call
MaxDocs == 3        \* most search results of one run
MaxWorkers == 2     \* largest workers argument
MaxValLen == 3      \* longest enumerated value string of a condition
MaxConds == 2       \* most conditions of a record with several conditions
MaxCalls == 3       \* most calls of download_pdf followed one after another

\* ------------------------------------------------------------ JSON values
None == "None"
JTrue == "true"
JFalse == "false"
EmptyDict == [z \in {} |-> None]

Get(d, key) == IF key \in DOMAIN d THEN d[key] ELSE None

\* dict.get(key, default)
GetOr(d, key, default) == IF key \in DOMAIN d THEN d[key] ELSE default

Put(d, key, val) ==
    [z \in (DOMAIN d) \cup {key} |-> IF z = key THEN val ELSE d[z]]

\* Python truthiness of a value read from a parsed object
Truthy(val) == val \notin {None, JFalse, ""}

\* ----------------------------------------------------------------- tokens
LB == [k |-> "{", v |-> ""]
RB == [k |-> "}", v |-> ""]
COMMA == [k |-> ",", v |-> ""]
X == [k |-> "x", v |-> ""]
Pair(key, val) == [k |-> key, v |-> val]
KeyOf(key) == [k |-> key, v |-> ":"]

ScalarKeys == {"target_material", "method_type", "description", "precursors",
               "conditions", "type", "relevant", "valid", "reason",
               "missing_elements"}
ObjectKeys == {"comparison"}

IsPair(tok) == tok.k \in ScalarKeys
IsKeyOf(tok) == tok.k \in ObjectKeys /\ tok.v = ":"

\* ---------------------------------------------- re.search(r'\{.*\}', DOTALL)
NoMatch == [found |-> FALSE, start |-> 0, end |-> 0]

SetMin(S) == CHOOSE m \in S : \A n \in S : m <= n
SetMax(S) == CHOOSE m \in S : \A n \in S : n <= m

\* (variant: a lazy quantifier, the match ends at the first closing brace)
LazyEnd(t, i) == SetMin({j \in (i + 1)..Len(t) : t[j] = RB})

\* the greedy end of a match that starts at i: the last closing brace
GreedyEnd(t, i) == SetMax({j \in (i + 1)..Len(t) : t[j] = RB})

\* (variant: the search starts at the last opening brace instead)
ReSearchLastOpen(t) ==
    LET starts == {i \in 1..Len(t) :
                     t[i] = LB /\ \E j \in (i + 1)..Len(t) : t[j] = RB}
    IN  IF starts = {} THEN NoMatch
        ELSE LET i == SetMax(starts)
             IN  [found |-> TRUE, start |-> i, end |-> GreedyEnd(t, i)]

\* leftmost match: the first opening brace that some closing brace follows
ReSearch(t) ==
    LET starts == {i \in 1..Len(t) :
                     t[i] = LB /\ \E j \in (i + 1)..Len(t) : t[j] = RB}
    IN  IF starts = {} THEN NoMatch
        ELSE LET i == SetMin(starts)
             IN  [found |-> TRUE, start |-> i, end |-> GreedyEnd(t, i)]

Group0(t, m) == SubSeq(t, m.start, m.end)

\* --------------------------------------------------------------- json.loads
ParseFail == [ok |-> FALSE, val |-> EmptyDict, next |-> 0]

RECURSIVE ParseObject(_, _), ParseMembers(_, _, _), ParseAfterMember(_, _, _)

\* an object starting at position i; next is the position after its "}"
ParseObject(s, i) ==
    IF i > Len(s) \/ s[i] # LB THEN ParseFail
    ELSE IF i + 1 <= Len(s) /\ s[i + 1] = RB
         THEN [ok |-> TRUE, val |-> EmptyDict, next |-> i + 2]
         ELSE ParseMembers(s, i + 1, EmptyDict)

\* a member at position i; a repeated key keeps the last value
ParseMembers(s, i, acc) ==
    IF i > Len(s) THEN ParseFail
    ELSE IF IsPair(s[i]) THEN ParseAfterMember(s, i + 1, Put(acc, s[i].k, s[i].v))
    ELSE IF IsKeyOf(s[i])
         THEN LET r == ParseObject(s, i + 1)
              IN  IF r.ok THEN ParseAfterMember(s, r.next, Put(acc, s[i].k, r.val))
                  ELSE ParseFail
    ELSE ParseFail

ParseAfterMember(s, i, acc) ==
    IF i > Len(s) THEN ParseFail
    ELSE IF s[i] = RB THEN [ok |-> TRUE, val |-> acc, next |-> i + 1]
    ELSE IF s[i] = COMMA THEN ParseMembers(s, i + 1, acc)
    ELSE ParseFail

\* json.loads(json_str): the whole string must be one value ("Extra data"
\* otherwise); ok = FALSE stands for json.JSONDecodeError
JsonLoads(s) ==
    LET r == ParseObject(s, 1)
    IN  IF r.ok /\ r.next = Len(s) + 1 THEN [ok |-> TRUE, val |-> r.val]
        ELSE [ok |-> FALSE, val |-> EmptyDict]

\* ------------------------------------------ the inference service's replies
\* How an object appears in a response text (members in a fixed order)
KeyOrder == <<"target_material", "method_type", "description", "precursors",
              "conditions", "type", "relevant", "comparison", "valid",
              "reason", "missing_elements">>

RECURSIVE Serialize(_), SerializeMembers(_, _, _)

SerializeMembers(d, i, started) ==
    IF i > Len(KeyOrder) THEN <<>>
    ELSE LET key == KeyOrder[i]
         IN  IF key \notin DOMAIN d THEN SerializeMembers(d, i + 1, started)
             ELSE (IF started THEN <<COMMA>> ELSE <<>>)
                  \o (IF key \in ObjectKeys
                      THEN <<KeyOf(key)>> \o Serialize(d[key])
                      ELSE <<Pair(key, d[key])>>)
                  \o SerializeMembers(d, i + 1, TRUE)

Serialize(d) == <<LB>> \o SerializeMembers(d, 1, FALSE) \o <<RB>>

\* objects shaped as PROMPT_TEMPLATE_TEXT / PROMPT_TEMPLATE_VISION ask
Recipe(tm, mt, de, pr, co) ==
    [target_material |-> tm, method_type |-> mt, description |-> de,
     precursors |-> pr, conditions |-> co]

ExtractionObjects ==
    { Recipe("Unknown", "Sol-gel", "d1", "p1", "c1"),
      Recipe("ZIF-8", "Hydrothermal", "d2", "p2", "c2"),
      Recipe("MOF-5", "Solid-state", "d3", "p3", "c3"),
      [method_type |-> "Sol-gel"],
      [target_material |-> ""],
      [target_material |-> "MOF-5",
       comparison |-> [target_material |-> "ZIF-8"]],
      EmptyDict }

\* objects shaped as PROMPT_CLASSIFY asks, and some that miss a field
ImageTypes == {"graph", "flowchart", "table", "molecule", "microscopy", "other"}

ClassificationObjects ==
    { [type |-> ty, relevant |-> re] : ty \in ImageTypes, re \in {JTrue, JFalse} }
    \cup { [type |-> "graph"], [relevant |-> JTrue], EmptyDict }

\* commentary a model may put before and after the object
Commentary == { <<<<>>, <<>>>>, <<<<X>>, <<X>>>> }

ExceptionReply(kind) ==
    [kind |-> kind, text |-> <<>>, wellformed |-> FALSE, obj |-> EmptyDict]

TextReply(pre, d, post) ==
    [kind |-> "text", text |-> pre \o Serialize(d) \o post,
     wellformed |-> TRUE, obj |-> d]

MalformedReply(t) ==
    [kind |-> "text", text |-> t, wellformed |-> FALSE, obj |-> EmptyDict]

\* texts with no span, and texts whose span is not one JSON value
NoSpanTexts == { <<>>, <<X>>, <<RB, X, LB>> }
BadSpanTexts ==
    { <<LB, X, RB>>,
      <<LB, RB, X, LB, RB>>,
      <<LB, Pair("target_material", "ZIF-8"), RB, RB>> }

\* requests.post raising, raise_for_status raising, response.json() raising,
\* or a body whose "response" is some text
RepliesWith(objects) ==
    { ExceptionReply(kind) : kind \in {"transport", "status", "notjson"} }
    \cup { TextReply(c[1], d, c[2]) : c \in Commentary, d \in objects }
    \cup { MalformedReply(t) : t \in NoSpanTexts \cup BadSpanTexts }

ExtractionReplies == RepliesWith(ExtractionObjects)
ClassificationReplies == RepliesWith(ClassificationObjects)

Replies(prompt) ==
    IF prompt = "classify" THEN ClassificationReplies ELSE ExtractionReplies

\* ------------------------------------------------------------------- state
VARIABLES
    attempts,          \* config.RETRY_ATTEMPTS
    hybrid, compare,   \* the flags of process_paper
    is_pdf,            \* file_path ends with .pdf
    pc,                \* position in main / process_paper / _extract_dual
    data,              \* process_paper's working record
    images,            \* images harvested from the document
    img_index,         \* position of the classification loop in images
    relevant_images,   \* images kept by the classification filter
    content,           \* content_for_extractor of the legacy modes
    vision_result,     \* value the vision extraction call returned
    text_result,       \* value the text extraction call returned
    calls,             \* prompts the gateway was called with for this paper
    gpc,               \* position in _extract_llm
    gmodel,            \* model of the current gateway call
    gprompt,           \* prompt template of the current gateway call
    images_b64,        \* images of the payload
    attempt,           \* loop index of the retry loop
    gresult,           \* value returned by the gateway call
    response_text,     \* result.get("response", "")
    json_match,        \* re.search's match
    outcome,           \* how the last attempt ended
    requests,          \* requests.post calls issued by the current gateway call
    failures,          \* of these, the ones the service failed
    sleeps,            \* time.sleep(delay) calls of the current gateway call
    reply,             \* what the service answered to the last request
    last_model,        \* model of the last inference request since a release
    unreleased_switch  \* a request followed one to the other model, no release

inputVars == <<attempts, hybrid, compare, is_pdf>>
paperVars == <<pc, data, images, img_index, relevant_images, content,
               vision_result, text_result>>
gatewayVars == <<gpc, gmodel, gprompt, images_b64, attempt, gresult,
                 response_text, json_match, outcome, requests, failures,
                 sleeps, reply>>
residencyVars == <<last_model, unreleased_switch>>

\* a run over several documents: batch_runner.run_batch, main.process_query
VARIABLES
    entry,             \* the entry point: "run_batch" or "process_query"
    workers,           \* the workers argument of process_query
    results,           \* number of search results
    res_index,         \* position of the download loop in results
    pdf_paths,         \* documents downloaded, in download order
    bpc,               \* position in run_batch / process_query / __main__
    bi,                \* position of the current loop in pdf_paths
    vision_results,    \* run_batch: outcome of the vision pass per document
    text_results,      \* run_batch: outcome of the text pass per document
    queue,             \* process_query: documents submitted, not yet started
    running,           \* process_query: documents a pool thread is processing
    paper_outcome,     \* process_query: how process_paper ended per document
    events,            \* per-document operations and releases, in issue order
    stage,             \* process_query: each pool thread's place and record
    files              \* the download directory: the file of each title

batchVars == <<entry, workers, results, res_index, pdf_paths, bpc, bi,
               vision_results, text_results, queue, running, paper_outcome,
               events, stage, files>>

\* one record through ChemistryAgent._normalize_data
VARIABLES
    raw_data,          \* the record passed to _normalize_data
    normalized,        \* the copy _normalize_data builds and returns
    new_conditions,    \* the list the loop appends to
    ni,                \* position of the loop in the record's conditions
    npc,               \* position in _normalize_data
    value,             \* _normalize_condition: what _parse_value gave
    std_unit,          \* _normalize_condition: unit_map.get(unit_str, unit_str)
    norm_cond,         \* what _normalize_condition returned
    check_ok, warning, \* what _check_physical_validity returned
    failed             \* the conditions the check has rejected so far

normVars == <<raw_data, normalized, new_conditions, ni, npc, value, std_unit,
              norm_cond, check_ok, warning, failed>>

\* the rest of ChemistryAgent.analyze and the storage of its result
VARIABLES
    ci,                \* position in the precursors of _validate_chemicals
    last_call,         \* the last call to a service outside the gateway
    db                 \* the rows of the database, table by table

analysisVars == <<ci, last_call, db>>

pipelineVars == <<inputVars, paperVars, calls, gatewayVars, residencyVars>>
vars == <<pipelineVars, batchVars, normVars, analysisVars>>

MODEL_VISION == "vision"
MODEL_TEXT == "text"

ImageCap == 3

NoReply == ExceptionReply("none")

\* an image: its identity and whether PIL can save it as JPEG (RGB, L, CMYK
\* can; RGBA, P, LA raise OSError in image.save)
Images == [id : 1..MaxImages, jpeg_ok : BOOLEAN]
PageImages == [id : 1..MaxImages, jpeg_ok : {TRUE}]

\* lists of n images numbered 1..n
ImageLists(S) ==
    UNION { {l \in [1..n -> S] : \A i \in 1..n : l[i].id = i} : n \in 0..MaxImages }

TextContent == [kind |-> "str", imgs |-> <<>>]
ListContent(l) == [kind |-> "list", imgs |-> l]
ImageContent(img) == [kind |-> "image", imgs |-> <<img>>]

GatewayIdle ==
    /\ gpc' = "idle"
    /\ gmodel' = "none"
    /\ gprompt' = "none"
    /\ images_b64' = <<>>
    /\ attempt' = 0
    /\ gresult' = EmptyDict
    /\ response_text' = <<>>
    /\ json_match' = NoMatch
    /\ outcome' = "none"
    /\ requests' = 0
    /\ failures' = 0
    /\ sleeps' = 0
    /\ reply' = NoReply

IdleState ==
    /\ data = EmptyDict
    /\ images = <<>>
    /\ img_index = 1
    /\ relevant_images = <<>>
    /\ content = TextContent
    /\ vision_result = EmptyDict
    /\ text_result = EmptyDict
    /\ calls = {}
    /\ gpc = "idle"
    /\ gmodel = "none"
    /\ gprompt = "none"
    /\ images_b64 = <<>>
    /\ attempt = 0
    /\ gresult = EmptyDict
    /\ json_match = NoMatch
    /\ outcome = "none"
    /\ requests = 0
    /\ failures = 0
    /\ sleeps = 0
    /\ reply = NoReply
    /\ last_model = "none"
    /\ unreleased_switch = FALSE

\* no run over several documents is in progress
BatchIdle ==
    /\ entry = "none"
    /\ workers = 1
    /\ results = 0
    /\ res_index = 1
    /\ pdf_paths = <<>>
    /\ bpc = "idle"
    /\ bi = 1
    /\ vision_results = EmptyDict
    /\ text_results = EmptyDict
    /\ queue = <<>>
    /\ running = {}
    /\ paper_outcome = EmptyDict
    /\ events = <<>>
    /\ stage = EmptyDict
    /\ files = [title \in 1..MaxDocs |-> "absent"]

\* the locals of the normalizer before the first condition
NormLocalsIdle ==
    /\ value = [ok |-> FALSE, num |-> 0, den |-> 1]
    /\ std_unit = <<>>
    /\ norm_cond = EmptyDict
    /\ check_ok = TRUE
    /\ warning = [kind |-> "", val |-> 0, unit |-> <<>>]
    /\ failed = <<>>

\* no record is being normalized
NormIdle ==
    /\ raw_data = EmptyDict
    /\ normalized = EmptyDict
    /\ new_conditions = <<>>
    /\ ni = 1
    /\ npc = "idle"
    /\ NormLocalsIdle

\* a call to a service: which one and what for, the requests sent and the
\* sleeps taken for it, and the answers the service gave, in order
Call(service, arg, sent, slept, answers) ==
    [service |-> service, arg |-> arg, requests |-> sent, sleeps |-> slept,
     answers |-> answers]

NoCall == Call("none", <<>>, 0, 0, <<>>)

\* db_manager.init_db, 13-62: the four tables, empty
EmptyDb ==
    [papers |-> <<>>, syntheses |-> <<>>, precursors |-> <<>>,
     conditions |-> <<>>]

\* no record is being analysed or stored
AnalysisIdle ==
    /\ ci = 1
    /\ last_call = NoCall
    /\ db = EmptyDb

\* no single document is being processed
PipelineIdle ==
    /\ attempts = 1
    /\ hybrid = FALSE
    /\ compare = FALSE
    /\ is_pdf = FALSE
    /\ pc = "idle"
    /\ response_text = <<>>
    /\ IdleState

Init ==
    /\ BatchIdle
    /\ NormIdle
    /\ AnalysisIdle
    /\ attempts \in 0..MaxAttempts
    /\ hybrid \in BOOLEAN
    /\ compare \in BOOLEAN
    /\ is_pdf \in BOOLEAN
    /\ pc = "start"
    /\ response_text = <<>>
    /\ IdleState

\* ---------------------------------------------------- _extract_llm, 149-213
Min(a, b) == IF a < b THEN a ELSE b

\* (variant: every image of the list is sent)
PayloadImagesAll(c) ==
    IF c.kind = "list" THEN c.imgs
    ELSE IF c.kind = "image" THEN c.imgs
    ELSE <<>>

\* content[:3] of a list, the image itself for a single image
PayloadImages(c) ==
    IF c.kind = "list" THEN SubSeq(c.imgs, 1, Min(ImageCap, Len(c.imgs)))
    ELSE IF c.kind = "image" THEN c.imgs
    ELSE <<>>

\* (variant: off by one, attempt < attempts)
RetryLeftOffByOne(att, n) == att < n

\* attempt < attempts - 1
RetryLeft(att, n) == att < n - 1

\* lines 190-198: search the span and parse it; status is "returned" for a
\* parsed object, "error" for json.loads raising, "no_json" for no match
Recover(t) ==
    LET m == ReSearch(t)
    IN  IF m.found
        THEN LET j == JsonLoads(Group0(t, m))
             IN  [match |-> m, val |-> j.val,
                  status |-> IF j.ok THEN "returned" ELSE "error"]
        ELSE [match |-> m, val |-> EmptyDict, status |-> "no_json"]

\* lines 151-181: build the payload; image_to_base64 raises on an image that
\* cannot be saved as JPEG; range(attempts) is empty for attempts <= 0
CallLLM(c, model, prompt) ==
    LET payload == PayloadImages(c)
    IN  /\ gmodel' = model
        /\ gprompt' = prompt
        /\ attempt' = 0
        /\ gresult' = EmptyDict
        /\ response_text' = <<>>
        /\ json_match' = NoMatch
        /\ outcome' = "none"
        /\ requests' = 0
        /\ failures' = 0
        /\ sleeps' = 0
        /\ reply' = NoReply
        /\ calls' = calls \cup {prompt}
        /\ IF \E i \in 1..Len(payload) : ~payload[i].jpeg_ok
           THEN gpc' = "raised" /\ images_b64' = <<>>
           ELSE /\ images_b64' = [i \in 1..Len(payload) |-> payload[i].id]
                /\ gpc' = IF attempts <= 0 THEN "ret" ELSE "post"

\* (variant: the last failure is raised to the caller)
AfterExceptionRaised(att, n) ==
    IF RetryLeft(att, n) THEN [gpc |-> "sleep", attempt |-> att]
    ELSE [gpc |-> "raised", attempt |-> att]

\* lines 206-212: the except branch sleeps before the next attempt
AfterException(att, n) ==
    IF RetryLeft(att, n) THEN [gpc |-> "sleep", attempt |-> att]
    ELSE [gpc |-> "ret", attempt |-> att]

\* lines 197-204: no match; continue starts the next attempt at once
AfterNoJson(att, n) ==
    IF RetryLeft(att, n) THEN [gpc |-> "post", attempt |-> att + 1]
    ELSE [gpc |-> "ret", attempt |-> att]

\* lines 184-212: one attempt of the retry loop
Post ==
    /\ gpc = "post"
    /\ \E r \in Replies(gprompt) :
         /\ reply' = r
         /\ requests' = requests + 1
         /\ failures' = failures + (IF r.wellformed THEN 0 ELSE 1)
         /\ unreleased_switch' =
                (unreleased_switch \/ last_model \notin {"none", gmodel})
         /\ last_model' = gmodel
         /\ LET rec == IF r.kind = "text" THEN Recover(r.text)
                       ELSE [match |-> NoMatch, val |-> EmptyDict,
                             status |-> "error"]
                nxt == IF rec.status = "returned"
                       THEN [gpc |-> "ret", attempt |-> attempt]
                       ELSE IF rec.status = "error"
                            THEN AfterException(attempt, attempts)
                            ELSE AfterNoJson(attempt, attempts)
            IN  /\ response_text' = r.text
                /\ json_match' = rec.match
                /\ outcome' = rec.status
                /\ gresult' = rec.val
                /\ gpc' = nxt.gpc
                /\ attempt' = nxt.attempt
    /\ UNCHANGED <<analysisVars, batchVars, normVars, inputVars, paperVars,
                   calls, gmodel, gprompt, images_b64, sleeps>>

\* line 209: time.sleep(delay), then the next iteration of the loop
Sleep ==
    /\ gpc = "sleep"
    /\ sleeps' = sleeps + 1
    /\ attempt' = attempt + 1
    /\ gpc' = "post"
    /\ UNCHANGED <<analysisVars, batchVars, normVars, inputVars, paperVars,
                   calls, residencyVars, gmodel, gprompt, images_b64, gresult,
                   response_text, json_match, outcome, requests, failures,
                   reply>>

\* ----------------------------------------- extractor.unload_model, 215-224
\* asks the service to drop both models; a failing request is ignored
UnloadModel ==
    /\ last_model' = "none"
    /\ unreleased_switch' = unreleased_switch

\* --------------------------------------------- main.process_paper, 63-146
\* (variant: the filter forgets the type)
KeepImageAnyType(classification) == Truthy(Get(classification, "relevant"))

\* line 113: the classification filter
KeepImage(classification) ==
    /\ Truthy(Get(classification, "relevant"))
    /\ Get(classification, "type") \in {"graph", "flowchart", "table"}

\* (variant: the vision target is adopted whenever there is one)
HybridMergeVisionWins(d, vision_data) ==
    LET attached == Put(d, "visual_evidence_data", vision_data)
    IN  IF Truthy(Get(vision_data, "target_material"))
        THEN Put(attached, "target_material", vision_data["target_material"])
        ELSE attached

\* (variant: data.update(vision_data) instead of attaching)
HybridMergeUpdate(d, vision_data) ==
    LET updated == [z \in (DOMAIN d) \cup (DOMAIN vision_data) |->
                       IF z \in DOMAIN vision_data THEN vision_data[z] ELSE d[z]]
    IN  Put(updated, "visual_evidence_data", vision_data)

\* lines 125-129: attach the vision result, fill a target left "Unknown"
HybridMerge(d, vision_data) ==
    LET attached == Put(d, "visual_evidence_data", vision_data)
    IN  IF /\ Get(attached, "target_material") = "Unknown"
           /\ Truthy(Get(vision_data, "target_material"))
        THEN Put(attached, "target_material", vision_data["target_material"])
        ELSE attached

\* (variant: the vision result is spread over the combined record last)
DualCombineSpreadLast(v, t) ==
    LET base == [mode |-> "dual", vision_extraction |-> v, text_extraction |-> t,
                 comparison |->
                    [vision_material |-> Get(v, "target_material"),
                     text_material |-> Get(t, "target_material"),
                     match |-> (Get(v, "target_material") = Get(t, "target_material"))]]
    IN  [z \in (DOMAIN base) \cup (DOMAIN v) |->
            IF z \in DOMAIN v THEN v[z] ELSE base[z]]

\* extractor._extract_dual, lines 133-147
DualCombine(v, t) ==
    LET base == [mode |-> "dual", vision_extraction |-> v, text_extraction |-> t]
        combined == [z \in (DOMAIN base) \cup (DOMAIN v) |->
                        IF z \in DOMAIN v THEN v[z] ELSE base[z]]
    IN  Put(combined, "comparison",
            [vision_material |-> Get(v, "target_material"),
             text_material |-> Get(t, "target_material"),
             match |-> (Get(v, "target_material") = Get(t, "target_material"))])

\* lines 66-89: read the text; a PDF whose text cannot be extracted goes on
\* with empty text, any other file that cannot be read ends the call
Ingest ==
    /\ pc = "start"
    /\ \E readable \in BOOLEAN :
         pc' = IF ~is_pdf /\ ~readable THEN "returned"
               ELSE IF hybrid THEN "step_a" ELSE "legacy"
    /\ UNCHANGED <<analysisVars, batchVars, normVars, inputVars, data, images,
                   img_index, relevant_images, content, vision_result,
                   text_result, calls, gatewayVars, residencyVars>>

\* lines 99-101: step A, extract_synthesis_data(text_content, mode='text')
TextPass ==
    /\ pc = "step_a"
    /\ CallLLM(TextContent, MODEL_TEXT, "text")
    /\ pc' = "step_a_wait"
    /\ UNCHANGED <<analysisVars, batchVars, normVars, inputVars, data, images,
                   img_index, relevant_images, content, vision_result,
                   text_result, residencyVars>>

\* lines 101-108: data = text_data; images = extract_images_from_pdf(...),
\* which gives [] for a file it cannot open
TextPassReturn ==
    /\ pc = "step_a_wait" /\ gpc = "ret"
    /\ data' = gresult
    /\ text_result' = gresult
    /\ images' \in (IF is_pdf THEN ImageLists(Images) ELSE {<<>>})
    /\ img_index' = 1
    /\ relevant_images' = <<>>
    /\ pc' = "step_b"
    /\ GatewayIdle
    /\ UNCHANGED <<analysisVars, batchVars, normVars, inputVars, content,
                   vision_result, calls, residencyVars>>

\* lines 109-110: classify_image(img_obj['image'])
Classify ==
    /\ pc = "step_b" /\ img_index <= Len(images)
    /\ CallLLM(ImageContent(images[img_index]), MODEL_VISION, "classify")
    /\ pc' = "step_b_wait"
    /\ UNCHANGED <<analysisVars, batchVars, normVars, inputVars, data, images,
                   img_index, relevant_images, content, vision_result,
                   text_result, residencyVars>>

\* lines 110-114
ClassifyReturn ==
    /\ pc = "step_b_wait" /\ gpc = "ret"
    /\ relevant_images' = IF KeepImage(gresult)
                          THEN Append(relevant_images, images[img_index])
                          ELSE relevant_images
    /\ img_index' = img_index + 1
    /\ pc' = "step_b"
    /\ GatewayIdle
    /\ UNCHANGED <<analysisVars, batchVars, normVars, inputVars, data, images,
                   content, vision_result, text_result, calls, residencyVars>>

\* (variant: step C runs whether or not an image was kept)
VisionPassAlways ==
    /\ pc = "step_b" /\ img_index > Len(images)
    /\ CallLLM(ListContent(relevant_images), MODEL_VISION, "vision")
    /\ pc' = "step_c_wait"
    /\ UNCHANGED <<analysisVars, batchVars, normVars, inputVars, data, images,
                   img_index, relevant_images, content, vision_result,
                   text_result, residencyVars>>

\* lines 117-121: step C, extract_synthesis_data(relevant_images, 'vision')
VisionPass ==
    /\ pc = "step_b" /\ img_index > Len(images)
    /\ relevant_images # <<>>
    /\ CallLLM(ListContent(relevant_images), MODEL_VISION, "vision")
    /\ pc' = "step_c_wait"
    /\ UNCHANGED <<analysisVars, batchVars, normVars, inputVars, data, images,
                   img_index, relevant_images, content, vision_result,
                   text_result, residencyVars>>

\* line 117: no relevant image, no vision pass
SkipVisionPass ==
    /\ pc = "step_b" /\ img_index > Len(images)
    /\ relevant_images = <<>>
    /\ pc' = "extracted"
    /\ UNCHANGED <<analysisVars, batchVars, normVars, inputVars, data, images,
                   img_index, relevant_images, content, vision_result,
                   text_result, calls, gatewayVars, residencyVars>>

\* lines 121-129
VisionPassReturn ==
    /\ pc = "step_c_wait" /\ gpc = "ret"
    /\ vision_result' = gresult
    /\ data' = HybridMerge(data, gresult)
    /\ pc' = "extracted"
    /\ GatewayIdle
    /\ UNCHANGED <<analysisVars, batchVars, normVars, inputVars, images,
                   img_index, relevant_images, content, text_result, calls,
                   residencyVars>>

\* lines 133-140: the legacy modes; ingestor.read_file gives the page images
\* of a PDF ([] when the conversion fails), the text is passed otherwise
Legacy ==
    /\ pc = "legacy"
    /\ content' \in (IF is_pdf
                     THEN {ListContent(l) : l \in ImageLists(PageImages)}
                     ELSE {TextContent})
    /\ pc' = IF compare THEN "dual_vision" ELSE "vision"
    /\ UNCHANGED <<analysisVars, batchVars, normVars, inputVars, data, images,
                   img_index, relevant_images, vision_result, text_result,
                   calls, gatewayVars, residencyVars>>

\* extractor.extract_synthesis_data, lines 111-115, mode 'vision'
VisionMode ==
    /\ pc = "vision"
    /\ CallLLM(content, MODEL_VISION, "vision")
    /\ pc' = "vision_wait"
    /\ UNCHANGED <<analysisVars, batchVars, normVars, inputVars, data, images,
                   img_index, relevant_images, content, vision_result,
                   text_result, residencyVars>>

\* main.py line 142
VisionModeReturn ==
    /\ pc = "vision_wait" /\ gpc = "ret"
    /\ data' = gresult
    /\ vision_result' = gresult
    /\ pc' = "extracted"
    /\ GatewayIdle
    /\ UNCHANGED <<analysisVars, batchVars, normVars, inputVars, images,
                   img_index, relevant_images, content, text_result, calls,
                   residencyVars>>

\* extractor._extract_dual, lines 121-126: vision only for a list
DualVision ==
    /\ pc = "dual_vision"
    /\ IF content.kind = "list"
       THEN /\ CallLLM(content, MODEL_VISION, "vision")
            /\ pc' = "dual_vision_wait"
       ELSE /\ pc' = "dual_text"
            /\ UNCHANGED <<calls, gatewayVars>>
    /\ UNCHANGED <<analysisVars, batchVars, normVars, inputVars, data, images,
                   img_index, relevant_images, content, vision_result,
                   text_result, residencyVars>>

DualVisionReturn ==
    /\ pc = "dual_vision_wait" /\ gpc = "ret"
    /\ vision_result' = gresult
    /\ pc' = "dual_text"
    /\ GatewayIdle
    /\ UNCHANGED <<analysisVars, batchVars, normVars, inputVars, data, images,
                   img_index, relevant_images, content, text_result, calls,
                   residencyVars>>

\* extractor._extract_dual, lines 128-131: text only for a string
DualText ==
    /\ pc = "dual_text"
    /\ IF content.kind = "str"
       THEN /\ CallLLM(content, MODEL_TEXT, "text")
            /\ pc' = "dual_text_wait"
       ELSE /\ pc' = "dual_combine"
            /\ UNCHANGED <<calls, gatewayVars>>
    /\ UNCHANGED <<analysisVars, batchVars, normVars, inputVars, data, images,
                   img_index, relevant_images, content, vision_result,
                   text_result, residencyVars>>

DualTextReturn ==
    /\ pc = "dual_text_wait" /\ gpc = "ret"
    /\ text_result' = gresult
    /\ pc' = "dual_combine"
    /\ GatewayIdle
    /\ UNCHANGED <<analysisVars, batchVars, normVars, inputVars, data, images,
                   img_index, relevant_images, content, vision_result, calls,
                   residencyVars>>

\* extractor._extract_dual, lines 133-147, returned to main.py line 142
DualReturn ==
    /\ pc = "dual_combine"
    /\ data' = DualCombine(vision_result, text_result)
    /\ pc' = "extracted"
    /\ UNCHANGED <<analysisVars, batchVars, normVars, inputVars, images,
                   img_index, relevant_images, content, vision_result,
                   text_result, calls, gatewayVars, residencyVars>>

\* an exception of the gateway call (image_to_base64) leaves process_paper:
\* neither classify_image nor process_paper catches it
Propagate ==
    /\ gpc = "raised"
    /\ pc' = "raised"
    /\ GatewayIdle
    /\ UNCHANGED <<analysisVars, batchVars, normVars, inputVars, data, images,
                   img_index, relevant_images, content, vision_result,
                   text_result, calls, residencyVars>>

\* ------------------------------------------------ db_manager.py, 64-117
PaperRow(id, title, doi) == [id |-> id, title |-> title, doi |-> doi]

\* (variant: INSERT with no UNIQUE constraint on doi)
InsertPaperAlways(papers, title, doi) ==
    [papers |-> Append(papers, PaperRow(Len(papers) + 1, title, doi)),
     id |-> Len(papers) + 1]

\* insert_paper, 64-82: the INSERT, or on IntegrityError (doi is UNIQUE) the
\* id of the row that holds the doi; ids count up from 1, no row is deleted
InsertPaper(papers, title, doi) ==
    IF \E i \in 1..Len(papers) : papers[i].doi = doi
    THEN [papers |-> papers,
          id |-> papers[CHOOSE i \in 1..Len(papers) : papers[i].doi = doi].id]
    ELSE [papers |-> Append(papers, PaperRow(Len(papers) + 1, title, doi)),
          id |-> Len(papers) + 1]

\* the columns a child row takes from a dict: dict.get(key) for each, an
\* absent key being NULL
Columns(d, keys) == [k \in keys \cap DOMAIN d |-> d[k]]

PrecursorRow(synthesis_id, prec) ==
    [synthesis_id |-> synthesis_id,
     cols |-> Columns(prec, {"name", "amount", "unit"})]

ConditionRow(synthesis_id, cond) ==
    [synthesis_id |-> synthesis_id,
     cols |-> Columns(cond, {"parameter", "value", "unit"})]

\* (variant: only verified precursors are stored)
PrecursorRowsVerified(synthesis_id, save_data) ==
    LET precs == GetOr(save_data, "precursors", <<>>)
        kept == SelectSeq(precs, LAMBDA q : GetOr(q, "verified", TRUE))
    IN  [i \in 1..Len(kept) |-> PrecursorRow(synthesis_id, kept[i])]

\* main.py 204-210: insert_precursor for each precursor of save_data
PrecursorRows(synthesis_id, save_data) ==
    LET precs == GetOr(save_data, "precursors", <<>>)
    IN  [i \in 1..Len(precs) |-> PrecursorRow(synthesis_id, precs[i])]

\* main.py 213-219: insert_condition for each condition of save_data
ConditionRows(synthesis_id, save_data) ==
    LET conds == GetOr(save_data, "conditions", <<>>)
    IN  [i \in 1..Len(conds) |-> ConditionRow(synthesis_id, conds[i])]

\* main.py 186-191
\* the document of this run
FILE == "paper.pdf"

Doi(basename) == <<"file://", basename>>

\* main.py 144-219 with analyze off: `if not data: return`, else insert_paper,
\* insert_synthesis of the record, insert_precursor and insert_condition for
\* its lists (the precursors and conditions of an extraction object stand
\* for a non-empty list each, kept here as one entry)
StoreRecord(database, save_data) ==
    IF save_data = EmptyDict THEN database
    ELSE LET inserted == InsertPaper(database.papers, FILE, Doi(FILE))
             synthesis_id == Len(database.syntheses) + 1
             Children(key) ==
                 IF key \in DOMAIN save_data
                 THEN <<[synthesis_id |-> synthesis_id, rows |-> save_data[key]]>>
                 ELSE <<>>
         IN  [papers |-> inserted.papers,
              syntheses |->
                  Append(database.syntheses,
                         [id |-> synthesis_id, paper_id |-> inserted.id,
                          target_material |->
                              GetOr(save_data, "target_material", "Unknown"),
                          method_type |->
                              GetOr(save_data, "method_type", "Unknown")]),
              precursors |-> database.precursors \o Children("precursors"),
              conditions |-> database.conditions \o Children("conditions")]

\* lines 144-221: nothing extracted ends the call; otherwise the record is
\* stored and the call ends (the analysis of a record is followed step by
\* step under SpecAnalyze)
AfterExtract ==
    /\ pc = "extracted"
    /\ db' = StoreRecord(db, data)
    /\ pc' = "returned"
    /\ UNCHANGED <<ci, last_call, batchVars, normVars, inputVars, data, images,
                   img_index, relevant_images, content, vision_result,
                   text_result, calls, gatewayVars, residencyVars>>

\* main.py lines 282-287: the finally block releases the models
Cleanup ==
    /\ pc \in {"returned", "raised"}
    /\ UnloadModel
    /\ pc' = "done"
    /\ UNCHANGED <<analysisVars, batchVars, normVars, inputVars, data, images,
                   img_index, relevant_images, content, vision_result,
                   text_result, calls, gatewayVars>>

Next ==
    \/ Ingest
    \/ TextPass \/ TextPassReturn
    \/ Classify \/ ClassifyReturn
    \/ VisionPass \/ SkipVisionPass \/ VisionPassReturn
    \/ Legacy
    \/ VisionMode \/ VisionModeReturn
    \/ DualVision \/ DualVisionReturn
    \/ DualText \/ DualTextReturn \/ DualReturn
    \/ Post \/ Sleep
    \/ Propagate
    \/ AfterExtract
    \/ Cleanup

Spec == Init /\ [][Next]_vars

\* ------------------------------- one gateway call with a list of images
\* lists of up to MaxPayload images, numbered from any of them onwards, each
\* one fit for JPEG or not
PayloadLists ==
    UNION { { [i \in 1..n |-> [id |-> ((i + r) % n) + 1, jpeg_ok |-> ok[i]]] :
                r \in 0..(n - 1), ok \in [1..n -> BOOLEAN] } :
            n \in 1..MaxPayload } \cup {<<>>}

InitCap ==
    /\ BatchIdle
    /\ NormIdle
    /\ AnalysisIdle
    /\ attempts = 1
    /\ hybrid = FALSE
    /\ compare = FALSE
    /\ is_pdf = FALSE
    /\ pc = "vision"
    /\ response_text = <<>>
    /\ \E l \in PayloadLists :
           content = ListContent(l) /\ images = l /\ relevant_images = l
    /\ data = EmptyDict
    /\ img_index = 1
    /\ vision_result = EmptyDict
    /\ text_result = EmptyDict
    /\ calls = {}
    /\ gpc = "idle"
    /\ gmodel = "none"
    /\ gprompt = "none"
    /\ images_b64 = <<>>
    /\ attempt = 0
    /\ gresult = EmptyDict
    /\ json_match = NoMatch
    /\ outcome = "none"
    /\ requests = 0
    /\ failures = 0
    /\ sleeps = 0
    /\ reply = NoReply
    /\ last_model = "none"
    /\ unreleased_switch = FALSE

NextCap == VisionMode \/ Post \/ VisionModeReturn

SpecCap == InitCap /\ [][NextCap]_vars

\* ------------------------------------------ the span search on its own
\* every text of at most MaxLen tokens over these
SpanAlphabet ==
    {LB, RB, COMMA, X, Pair("target_material", "ZIF-8"), KeyOf("comparison")}

SpanTexts == UNION { [1..n -> SpanAlphabet] : n \in 0..MaxLen }

InitSpan ==
    /\ BatchIdle
    /\ NormIdle
    /\ AnalysisIdle
    /\ attempts = 1
    /\ hybrid = FALSE
    /\ compare = FALSE
    /\ is_pdf = FALSE
    /\ pc = "span_search"
    /\ response_text \in SpanTexts
    /\ IdleState

\* lines 190-198 applied to response_text
SpanSearch ==
    /\ pc = "span_search"
    /\ LET rec == Recover(response_text)
       IN  /\ json_match' = rec.match
           /\ outcome' = rec.status
           /\ gresult' = rec.val
    /\ pc' = "span_done"
    /\ UNCHANGED <<analysisVars, batchVars, normVars, inputVars, data, images,
                   img_index, relevant_images, content, vision_result,
                   text_result, calls, gpc, gmodel, gprompt, images_b64,
                   attempt, response_text, requests, failures, sleeps, reply,
                   residencyVars>>

NextSpan == SpanSearch

SpecSpan == InitSpan /\ [][NextSpan]_vars

\* ------------------------------------ agents/chemistry_agent.py, 16-26, 159-222
\* Strings of the normalizer are sequences of characters.
Digits == {"0", "1", "2", "3", "4", "5", "6", "7", "8", "9"}

DigitVal(c) ==
    CASE c = "0" -> 0 [] c = "1" -> 1 [] c = "2" -> 2 [] c = "3" -> 3
      [] c = "4" -> 4 [] c = "5" -> 5 [] c = "6" -> 6 [] c = "7" -> 7
      [] c = "8" -> 8 [] c = "9" -> 9

\* str.lower on one character, for the letters the inputs use
LowerChar(c) ==
    CASE c = "C" -> "c" [] c = "D" -> "d" [] c = "E" -> "e" [] c = "F" -> "f"
      [] c = "H" -> "h" [] c = "K" -> "k" [] c = "M" -> "m" [] c = "O" -> "o"
      [] c = "S" -> "s" [] c = "T" -> "t" [] c = "Z" -> "z" [] c = "Â" -> "â"
      [] OTHER -> c

Lower(str) == [i \in 1..Len(str) |-> LowerChar(str[i])]

\* str.strip: leading and trailing blanks removed
Strip(str) ==
    LET inked == {i \in 1..Len(str) : str[i] # " "}
    IN  IF inked = {} THEN <<>> ELSE SubSeq(str, SetMin(inked), SetMax(inked))

\* sub in str
Contains(sub, str) ==
    \E i \in 1..(Len(str) - Len(sub) + 1) : SubSeq(str, i, i + Len(sub) - 1) = sub

\* a value of a condition: a string (as extracted) or a float (as normalized),
\* the float counted in hundredths
StrVal(str) == [kind |-> "str", centi |-> 0, chars |-> str]
NumVal(c) == [kind |-> "float", centi |-> c, chars |-> <<>>]

\* the canonical unit names of unit_map
CELSIUS == <<"c", "e", "l", "s", "i", "u", "s">>
KELVIN == <<"k", "e", "l", "v", "i", "n">>
FAHRENHEIT == <<"f", "a", "h", "r", "e", "n", "h", "e", "i", "t">>
HOURS == <<"h", "o", "u", "r", "s">>
MINUTES == <<"m", "i", "n", "u", "t", "e", "s">>
SECONDS == <<"s", "e", "c", "o", "n", "d", "s">>
DAYS == <<"d", "a", "y", "s">>
UNIT_K == <<"K">>
UNIT_MIN == <<"m", "i", "n">>

\* lines 16-26; the third key is the three characters the source file holds
\* (capital A circumflex, degree sign, c)
unit_map ==
    (<<"c">> :> CELSIUS) @@
    (<<"c", "e", "l", "s", "i", "u", "s">> :> CELSIUS) @@
    (<<"Â", "°", "c">> :> CELSIUS) @@
    (<<"k">> :> KELVIN) @@
    (<<"k", "e", "l", "v", "i", "n">> :> KELVIN) @@
    (<<"f">> :> FAHRENHEIT) @@
    (<<"f", "a", "h", "r", "e", "n", "h", "e", "i", "t">> :> FAHRENHEIT) @@
    (<<"h">> :> HOURS) @@
    (<<"h", "r">> :> HOURS) @@
    (<<"h", "o", "u", "r", "s">> :> HOURS) @@
    (<<"m", "i", "n">> :> MINUTES) @@
    (<<"m">> :> MINUTES) @@
    (<<"m", "i", "n", "u", "t", "e", "s">> :> MINUTES) @@
    (<<"s">> :> SECONDS) @@
    (<<"s", "e", "c">> :> SECONDS) @@
    (<<"s", "e", "c", "o", "n", "d", "s">> :> SECONDS) @@
    (<<"d">> :> DAYS) @@
    (<<"d", "a", "y", "s">> :> DAYS)

\* ------------------------------------------------- _parse_value, 202-208
\* a float as an exact fraction num / den, den a power of ten (times two for
\* the mean of a range)
Fraction(num, den) == [ok |-> TRUE, num |-> num, den |-> den]
ValueError == [ok |-> FALSE, num |-> 0, den |-> 1]

\* re.sub(r'[^\d\.\-]', '', val_str)
ReSub(val_str) == SelectSeq(val_str, LAMBDA c : c \in Digits \cup {".", "-"})

RECURSIVE Split(_, _)
\* str.split(sep)
Split(str, sep) ==
    LET at == {i \in 1..Len(str) : str[i] = sep}
    IN  IF at = {} THEN <<str>>
        ELSE <<SubSeq(str, 1, SetMin(at) - 1)>>
                 \o Split(SubSeq(str, SetMin(at) + 1, Len(str)), sep)

RECURSIVE DigitsValue(_)
\* the number a string of digits denotes
DigitsValue(str) ==
    IF str = <<>> THEN 0
    ELSE 10 * DigitsValue(SubSeq(str, 1, Len(str) - 1)) + DigitVal(str[Len(str)])

RECURSIVE Pow10(_)
Pow10(n) == IF n = 0 THEN 1 ELSE 10 * Pow10(n - 1)

\* float(str) for a string of digits, '.' and '-': an optional sign, then
\* digits with at most one point and at least one digit; anything else
\* raises ValueError
Float(str) ==
    LET neg == str # <<>> /\ str[1] = "-"
        body == IF neg THEN Tail(str) ELSE str
        points == {i \in 1..Len(body) : body[i] = "."}
        digits == SelectSeq(body, LAMBDA c : c \in Digits)
        places == IF points = {} THEN 0 ELSE Len(body) - SetMin(points)
    IN  IF /\ \A i \in 1..Len(body) : body[i] \in Digits \cup {"."}
           /\ Cardinality(points) <= 1
           /\ digits # <<>>
        THEN Fraction((IF neg THEN -1 ELSE 1) * DigitsValue(digits), Pow10(places))
        ELSE ValueError

\* (a + b) / 2
Mean(a, b) == Fraction(a.num * b.den + b.num * a.den, 2 * a.den * b.den)

\* (variant: the sum of the two endpoints, not halved)
ParseValueSum(val_str) ==
    LET clean_val == ReSub(val_str)
        parts == Split(clean_val, "-")
    IN  IF Contains(<<"-">>, clean_val) /\ clean_val[1] # "-"
           /\ Len(parts) = 2 /\ parts[1] # <<>> /\ parts[2] # <<>>
        THEN IF Float(parts[1]).ok /\ Float(parts[2]).ok
             THEN Fraction(Float(parts[1]).num * Float(parts[2]).den
                               + Float(parts[2]).num * Float(parts[1]).den,
                           Float(parts[1]).den * Float(parts[2]).den)
             ELSE ValueError
        ELSE Float(clean_val)

\* lines 203-208; float raising on an endpoint raises out of _parse_value
ParseValue(val_str) ==
    LET clean_val == ReSub(val_str)
        parts == Split(clean_val, "-")
    IN  IF Contains(<<"-">>, clean_val) /\ clean_val[1] # "-"
           /\ Len(parts) = 2 /\ parts[1] # <<>> /\ parts[2] # <<>>
        THEN IF Float(parts[1]).ok /\ Float(parts[2]).ok
             THEN Mean(Float(parts[1]), Float(parts[2]))
             ELSE ValueError
        ELSE Float(clean_val)

\* --------------------------------------------- _normalize_condition, 159-200
\* round(num / den, 2) in hundredths.  A value exactly half way between two
\* hundredths has no exact double; which neighbour round() returns depends on
\* the double nearest to it, so either one can come out (up says which).
Round2(num, den, up) ==
    LET whole == num \div den
        rest == num % den
        low == 100 * whole + (100 * rest) \div den
        left == (100 * rest) % den
    IN  IF 2 * left < den THEN low
        ELSE IF 2 * left > den THEN low + 1
        ELSE IF up THEN low + 1 ELSE low

Converted(val, unit) == [value |-> val, unit |-> unit]

\* (variant: celsius shifted by 273, not 273.15)
ConvertUnitsWholeOffset(param, val, std) ==
    IF Contains(<<"t", "e", "m", "p">>, param)
    THEN IF std = CELSIUS
         THEN Converted(Fraction(val.num + 273 * val.den, val.den), UNIT_K)
         ELSE IF std = FAHRENHEIT
         THEN Converted(Fraction((val.num - 32 * val.den) * 500
                                     + 27315 * 9 * val.den,
                                 900 * val.den), UNIT_K)
         ELSE IF std = KELVIN THEN Converted(val, UNIT_K)
         ELSE Converted(val, std)
    ELSE IF \/ Contains(<<"t", "i", "m", "e">>, param)
            \/ Contains(<<"d", "u", "r", "a", "t", "i", "o", "n">>, param)
    THEN IF std = HOURS
         THEN Converted(Fraction(val.num * 60, val.den), UNIT_MIN)
         ELSE IF std = SECONDS
         THEN Converted(Fraction(val.num, 60 * val.den), UNIT_MIN)
         ELSE IF std = DAYS
         THEN Converted(Fraction(val.num * 1440, val.den), UNIT_MIN)
         ELSE IF std = MINUTES THEN Converted(val, UNIT_MIN)
         ELSE Converted(val, std)
    ELSE Converted(val, std)

\* lines 172-192: v + 273.15 is (100 num + 27315 den) / (100 den),
\* (v - 32) * 5/9 + 273.15 is ((num - 32 den) 500 + 27315 * 9 den) / (900 den)
ConvertUnits(param, val, std) ==
    IF Contains(<<"t", "e", "m", "p">>, param)
    THEN IF std = CELSIUS
         THEN Converted(Fraction(100 * val.num + 27315 * val.den,
                                 100 * val.den), UNIT_K)
         ELSE IF std = FAHRENHEIT
         THEN Converted(Fraction((val.num - 32 * val.den) * 500
                                     + 27315 * 9 * val.den,
                                 900 * val.den), UNIT_K)
         ELSE IF std = KELVIN THEN Converted(val, UNIT_K)
         ELSE Converted(val, std)
    ELSE IF \/ Contains(<<"t", "i", "m", "e">>, param)
            \/ Contains(<<"d", "u", "r", "a", "t", "i", "o", "n">>, param)
    THEN IF std = HOURS
         THEN Converted(Fraction(val.num * 60, val.den), UNIT_MIN)
         ELSE IF std = SECONDS
         THEN Converted(Fraction(val.num, 60 * val.den), UNIT_MIN)
         ELSE IF std = DAYS
         THEN Converted(Fraction(val.num * 1440, val.den), UNIT_MIN)
         ELSE IF std = MINUTES THEN Converted(val, UNIT_MIN)
         ELSE Converted(val, std)
    ELSE Converted(val, std)

\* line 161
ParamOf(condition) == Lower(GetOr(condition, "parameter", <<>>))

DigitChar(d) == CHOOSE c \in Digits : DigitVal(c) = d

RECURSIVE NatStr(_)
\* the decimal digits of a natural number
NatStr(n) ==
    IF n < 10 THEN <<DigitChar(n)>>
    ELSE Append(NatStr(n \div 10), DigitChar(n % 10))

\* (variant: the digits before the point only)
FloatStrWhole(c) ==
    LET mag == IF c < 0 THEN -c ELSE c
    IN  (IF c < 0 THEN <<"-">> ELSE <<>>) \o NatStr(mag \div 100)

\* line 162: str() of a float that holds hundredths is the shortest decimal
\* that reads back as the same float: the whole part, a point and one or two
\* decimals ('373.15', '120.0', '0.5', '-26.85')
FloatStr(c) ==
    LET mag == IF c < 0 THEN -c ELSE c
        frac == mag % 100
    IN  (IF c < 0 THEN <<"-">> ELSE <<>>)
            \o NatStr(mag \div 100) \o <<".">>
            \o (IF frac % 10 = 0 THEN <<DigitChar(frac \div 10)>>
                ELSE <<DigitChar(frac \div 10), DigitChar(frac % 10)>>)

\* line 162: str(condition.get('value', '')); an extracted value is a string,
\* a normalized one a float
ValStrOf(condition) ==
    LET v == GetOr(condition, "value", StrVal(<<>>))
    IN  IF v.kind = "float" THEN FloatStr(v.centi) ELSE v.chars

\* line 163
UnitStrOf(condition) == Strip(Lower(GetOr(condition, "unit", <<>>)))

\* line 170: self.unit_map.get(unit_str, unit_str)
StdUnit(unit_str) ==
    IF unit_str \in DOMAIN unit_map THEN unit_map[unit_str] ELSE unit_str

\* lines 159-200: the original dict when the value does not parse
NormalizeCondition(condition, up) ==
    LET parsed == ParseValue(ValStrOf(condition))
        conv == ConvertUnits(ParamOf(condition), parsed,
                             StdUnit(UnitStrOf(condition)))
    IN  IF ~parsed.ok THEN condition
        ELSE [parameter |-> ParamOf(condition),
              value |-> NumVal(Round2(conv.value.num, conv.value.den, up)),
              unit |-> conv.unit,
              original_value |-> ValStrOf(condition),
              original_unit |-> UnitStrOf(condition)]

\* ------------------------------------------ _check_physical_validity, 210-222
Warning(kind, val, unit) == [kind |-> kind, val |-> val, unit |-> unit]
NoWarning == Warning("", 0, <<>>)

Checked(ok, warn) == [raised |-> FALSE, ok |-> ok, warning |-> warn]
KeyError == [raised |-> TRUE, ok |-> FALSE, warning |-> NoWarning]

\* isinstance(val, (int, float))
IsNumber(val) == val.kind = "float"

\* (variant: no upper limit on a temperature)
CheckPhysicalValidityNoCeiling(condition) ==
    IF ~({"parameter", "value", "unit"} \subseteq DOMAIN condition) THEN KeyError
    ELSE LET param == condition["parameter"]
             val == condition["value"]
             unit == condition["unit"]
         IN  IF /\ Contains(<<"t", "e", "m", "p">>, param) /\ unit = UNIT_K
                /\ IsNumber(val) /\ val.centi < 0
             THEN Checked(FALSE, Warning("Impossible Temperature", val.centi, UNIT_K))
             ELSE IF /\ \/ Contains(<<"t", "i", "m", "e">>, param)
                        \/ Contains(<<"d", "u", "r", "a", "t", "i", "o", "n">>, param)
                     /\ IsNumber(val) /\ val.centi < 0
             THEN Checked(FALSE, Warning("Impossible Time", val.centi, unit))
             ELSE Checked(TRUE, NoWarning)

\* lines 210-222; the subscripts raise KeyError on a missing key; 4000 is
\* 400000 hundredths
CheckPhysicalValidity(condition) ==
    IF ~({"parameter", "value", "unit"} \subseteq DOMAIN condition) THEN KeyError
    ELSE LET param == condition["parameter"]
             val == condition["value"]
             unit == condition["unit"]
         IN  IF /\ Contains(<<"t", "e", "m", "p">>, param) /\ unit = UNIT_K
                /\ IsNumber(val) /\ val.centi < 0
             THEN Checked(FALSE, Warning("Impossible Temperature", val.centi, UNIT_K))
             ELSE IF /\ Contains(<<"t", "e", "m", "p">>, param) /\ unit = UNIT_K
                     /\ IsNumber(val) /\ val.centi > 400000
             THEN Checked(FALSE, Warning("Suspiciously High Temperature",
                                         val.centi, UNIT_K))
             ELSE IF /\ \/ Contains(<<"t", "i", "m", "e">>, param)
                        \/ Contains(<<"d", "u", "r", "a", "t", "i", "o", "n">>, param)
                     /\ IsNumber(val) /\ val.centi < 0
             THEN Checked(FALSE, Warning("Impossible Time", val.centi, unit))
             ELSE Checked(TRUE, NoWarning)

\* ---------------------------------------------- _clean_chemical_name, 224-232
CleanChemicalName(name) ==
    LET stripped == Strip(name)
        key == Lower(stripped)
    IN  IF key = <<"2", "-", "m", "e", "i", "m">>
        THEN <<"2", "-", "m", "e", "t", "h", "y", "l", "i", "m", "i", "d", "a", "z", "o", "l", "e">>
        ELSE IF key = <<"h", "2", "o">>
        THEN <<"w", "a", "t", "e", "r">>
        ELSE IF key = <<"e", "t", "o", "h">>
        THEN <<"e", "t", "h", "a", "n", "o", "l">>
        ELSE IF key = <<"m", "e", "o", "h">>
        THEN <<"m", "e", "t", "h", "a", "n", "o", "l">>
        ELSE stripped

\* -------------------------------------------------- _normalize_data, 43-68
\* bool(norm_cond): an empty dict is false
KeepCondition(nc) == DOMAIN nc # {}

\* (variant: the flag is cleared, no warning is appended)
AfterCheckFlagOnly(record, chk) ==
    IF chk.ok THEN record
    ELSE [record EXCEPT !["physics_check_passed"] = FALSE]

\* lines 58-60
AfterCheck(record, chk) ==
    IF chk.ok THEN record
    ELSE [record EXCEPT !["physics_check_passed"] = FALSE,
                        !["warnings"] = Append(@, chk.warning)]

\* (variant: the names are stripped, the aliases stay)
CleanPrecursorsStripped(precs) ==
    [i \in 1..Len(precs) |->
        Put(precs[i], "name", Strip(GetOr(precs[i], "name", <<>>)))]

\* lines 64-66: prec['name'] = self._clean_chemical_name(prec.get('name', ''))
CleanPrecursors(precs) ==
    [i \in 1..Len(precs) |->
        Put(precs[i], "name", CleanChemicalName(GetOr(precs[i], "name", <<>>)))]

\* the records given to _normalize_data
PARAM_TEMPERATURE == <<"T", "e", "m", "p", "e", "r", "a", "t", "u", "r", "e">>
PARAM_TIME == <<"T", "i", "m", "e">>
PARAM_DURATION == <<"d", "u", "r", "a", "t", "i", "o", "n">>
PARAM_PRESSURE == <<"p", "r", "e", "s", "s", "u", "r", "e">>
PARAM_TEMP_TIME == <<"t", "e", "m", "p", "_", "t", "i", "m", "e">>
Params == {PARAM_TEMPERATURE, PARAM_TIME, PARAM_DURATION, PARAM_PRESSURE, PARAM_TEMP_TIME}

\* unit strings as extracted: every key the table is meant to have, some in
\* capitals or padded, one unknown unit and the empty string
Units ==
    {<<"C">>,
     <<"c">>,
     <<"c", "e", "l", "s", "i", "u", "s">>,
     <<"°", "c">>,
     <<"°", "C">>,
     <<"Â", "°", "C">>,
     <<"K">>,
     <<"k">>,
     <<"k", "e", "l", "v", "i", "n">>,
     <<"F">>,
     <<"f">>,
     <<"f", "a", "h", "r", "e", "n", "h", "e", "i", "t">>,
     <<"h">>,
     <<" ", "H", " ">>,
     <<"h", "r">>,
     <<"h", "o", "u", "r", "s">>,
     <<"m", "i", "n">>,
     <<"m">>,
     <<"m", "i", "n", "u", "t", "e", "s">>,
     <<"s">>,
     <<"s", "e", "c">>,
     <<"s", "e", "c", "o", "n", "d", "s">>,
     <<"d">>,
     <<"d", "a", "y", "s">>,
     <<"m", "o", "l">>,
     <<>>}

ValAlphabet == {"0", "5", ".", "-", "a"}

\* value strings beside the enumerated ones
ValExamples ==
    {<<"1", "0", "0">>,
     <<"3", "2">>,
     <<"2">>,
     <<"3", "6", "0", "0">>,
     <<"1">>,
     <<"2", "0", "-", "3", "0">>,
     <<"a", "b", "c">>,
     <<"-", "1", "0">>,
     <<"4", "0", "0", "0">>,
     <<"4", "0", "0", "1">>,
     <<"3", "9", "9", "9">>,
     <<"-", "3", "0">>,
     <<"-", "3", "0", "0">>,
     <<"1", ".", "5">>,
     <<"0", ".", "1", "2", "5">>}

ValStrings == UNION { [1..n -> ValAlphabet] : n \in 0..MaxValLen }

Condition(param, val_str, unit) ==
    [parameter |-> param, value |-> StrVal(val_str), unit |-> unit]

\* parameter and unit of the conditions that take every enumerated value
ParamUnits ==
    {<<PARAM_TEMPERATURE, <<"C">>>>, <<PARAM_TEMPERATURE, <<"F">>>>,
     <<PARAM_TEMPERATURE, <<"K">>>>, <<PARAM_TIME, <<"s">>>>,
     <<PARAM_DURATION, <<"h">>>>, <<PARAM_PRESSURE, <<"m", "o", "l">>>>}

\* every example value with every parameter and unit, every enumerated
\* value with the parameters and units of ParamUnits
Conditions ==
    {Condition(p, v, u) : p \in Params, v \in ValExamples, u \in Units}
        \cup {Condition(pu[1], v, pu[2]) : pu \in ParamUnits, v \in ValStrings}

\* conditions of the records with several conditions: in range, below zero
\* after conversion, a negative time, unparsable, empty, unparsable with no
\* unit, 0 K and above the ceiling
SampleConditions ==
    {Condition(PARAM_TEMPERATURE, <<"1", "0", "0">>, <<"C">>),
     Condition(PARAM_TEMPERATURE, <<"-", "3", "0", "0">>, <<"C">>),
     Condition(PARAM_TIME, <<"-", "3", "0">>, <<"m", "i", "n">>),
     Condition(PARAM_TEMPERATURE, <<"a", "b", "c">>, <<"C">>),
     EmptyDict,
     [parameter |-> PARAM_TEMPERATURE, value |-> StrVal(<<"a", "b", "c">>)],
     Condition(PARAM_TEMPERATURE, <<"0">>, <<"K">>),
     Condition(PARAM_TEMPERATURE, <<"4", "0", "0", "1">>, <<"K">>)}

Precursor(name) == [name |-> name]

PrecursorLists ==
    {<<>>,
     <<Precursor(<<" ", "H", "2", "O", " ">>)>>,
     <<Precursor(<<"E", "t", "O", "H">>), Precursor(<<"Z", "n", "O">>), EmptyDict>>}

\* what _normalize_condition returns for these conditions: the records of a
\* second analysis hold them
NormalizedConditions ==
    {NormalizeCondition(c, up) : c \in Conditions, up \in BOOLEAN}

Records ==
    {[conditions |-> <<c>>] : c \in Conditions \cup NormalizedConditions}
        \cup {[conditions |-> cs, precursors |-> ps] :
                 cs \in UNION { [1..n -> SampleConditions] : n \in 0..MaxConds },
                 ps \in PrecursorLists}
        \cup {[precursors |-> ps] : ps \in PrecursorLists}
        \cup {EmptyDict}

InitNorm ==
    /\ PipelineIdle
    /\ BatchIdle
    /\ AnalysisIdle
    /\ raw_data \in Records
    /\ normalized = EmptyDict
    /\ new_conditions = <<>>
    /\ ni = 1
    /\ npc = "start"
    /\ NormLocalsIdle

\* lines 45-50: the shallow copy with the flag set and the warnings emptied
NormalizeBegin ==
    /\ npc = "start"
    /\ normalized' = Put(Put(raw_data, "physics_check_passed", TRUE),
                         "warnings", <<>>)
    /\ new_conditions' = <<>>
    /\ ni' = 1
    /\ npc' = "loop"
    /\ UNCHANGED <<analysisVars, pipelineVars, batchVars, raw_data, value,
                   std_unit, norm_cond, check_ok, warning, failed>>

\* lines 52-60: one condition of the loop
NormalizeStep ==
    /\ npc = "loop"
    /\ "conditions" \in DOMAIN raw_data
    /\ ni <= Len(raw_data["conditions"])
    /\ \E up \in BOOLEAN :
         LET cond == raw_data["conditions"][ni]
             parsed == ParseValue(ValStrOf(cond))
             nc == NormalizeCondition(cond, up)
             chk == CheckPhysicalValidity(nc)
         IN  /\ value' = parsed
             /\ std_unit' = IF parsed.ok THEN StdUnit(UnitStrOf(cond)) ELSE <<>>
             /\ norm_cond' = nc
             /\ IF ~KeepCondition(nc)
                THEN UNCHANGED <<new_conditions, normalized, check_ok,
                                 warning, failed, npc>>
                ELSE /\ new_conditions' = Append(new_conditions, nc)
                     /\ IF chk.raised
                        THEN /\ npc' = "raised"
                             /\ UNCHANGED <<normalized, check_ok, warning,
                                            failed>>
                        ELSE /\ check_ok' = chk.ok
                             /\ warning' = chk.warning
                             /\ normalized' = AfterCheck(normalized, chk)
                             /\ failed' = IF chk.ok THEN failed
                                          ELSE Append(failed, nc)
                             /\ npc' = "loop"
    /\ ni' = ni + 1
    /\ UNCHANGED <<analysisVars, pipelineVars, batchVars, raw_data>>

\* lines 61-68: the new list replaces the conditions, every precursor name is
\* cleaned; the precursor dicts are shared with raw_data by the shallow copy
NormalizeFinish ==
    /\ npc = "loop"
    /\ "conditions" \in DOMAIN raw_data => ni > Len(raw_data["conditions"])
    /\ LET with_conds == IF "conditions" \in DOMAIN normalized
                         THEN Put(normalized, "conditions", new_conditions)
                         ELSE normalized
       IN  IF "precursors" \in DOMAIN normalized
           THEN /\ normalized' = Put(with_conds, "precursors",
                                     CleanPrecursors(normalized["precursors"]))
                /\ raw_data' = Put(raw_data, "precursors",
                                   CleanPrecursors(raw_data["precursors"]))
           ELSE /\ normalized' = with_conds
                /\ raw_data' = raw_data
    /\ npc' = "done"
    /\ UNCHANGED <<analysisVars, pipelineVars, batchVars, new_conditions, ni,
                   value, std_unit, norm_cond, check_ok, warning, failed>>

NextNorm == NormalizeBegin \/ NormalizeStep \/ NormalizeFinish

SpecNorm == InitNorm /\ [][NextNorm]_vars

\* ------------------------------------------------ _search_pubchem, 142-156
\* what PubChem holds for a name, and the same with no molecular weight
Properties(name) ==
    [CID |-> Len(name), MolecularFormula |-> name, MolecularWeight |-> "18.015"]

PartialProperties(name) == [CID |-> Len(name), MolecularFormula |-> name]

PubChemAnswer(kind, props) == [kind |-> kind, props |-> props]

\* the answers to the one request: status 200 with a property table, status
\* 404, requests.get raising (timeout, connection), a body that is not the
\* JSON expected
PubChemAnswers(name) ==
    {PubChemAnswer("found", Properties(name)),
     PubChemAnswer("found", PartialProperties(name)),
     PubChemAnswer("not_found", EmptyDict),
     PubChemAnswer("timeout", EmptyDict),
     PubChemAnswer("malformed", EmptyDict)}

\* lines 142-156: the dict of lines 150-154, or None, written as the empty
\* dict, which `if pubchem_data` rejects as well
SearchPubchem(answer) ==
    IF answer.kind = "found"
    THEN [cid |-> Get(answer.props, "CID"),
          formula |-> Get(answer.props, "MolecularFormula"),
          molecular_weight |-> Get(answer.props, "MolecularWeight")]
    ELSE EmptyDict

\* -------------------------------------------- _validate_chemicals, 70-87
\* (variant: an unverified precursor is marked, no warning is appended)
AfterLookupSilent(record, i, pubchem_data) ==
    LET prec == record["precursors"][i]
    IN  IF DOMAIN pubchem_data # {}
        THEN [record EXCEPT !["precursors"][i] =
                 Put(Put(Put(Put(prec, "pubchem_cid", pubchem_data["cid"]),
                             "formula", pubchem_data["formula"]),
                         "mw", pubchem_data["molecular_weight"]),
                     "verified", TRUE)]
        ELSE [record EXCEPT !["precursors"][i] = Put(prec, "verified", FALSE)]

\* lines 78-85: the record after the lookup of precursor i
AfterLookup(record, i, pubchem_data) ==
    LET prec == record["precursors"][i]
    IN  IF DOMAIN pubchem_data # {}
        THEN [record EXCEPT !["precursors"][i] =
                 Put(Put(Put(Put(prec, "pubchem_cid", pubchem_data["cid"]),
                             "formula", pubchem_data["formula"]),
                         "mw", pubchem_data["molecular_weight"]),
                     "verified", TRUE)]
        ELSE [record EXCEPT
                 !["precursors"][i] = Put(prec, "verified", FALSE),
                 !["warnings"] =
                     Append(@, Warning("Chemical not found in PubChem", 0,
                                       prec["name"]))]

\* lines 74-85: one precursor of the loop; a precursor with no name or an
\* empty one is passed over; the precursor dicts are shared with raw_data
ValidateChemicalsStep ==
    /\ npc \in {"done", "chemicals"}
    /\ "precursors" \in DOMAIN normalized
    /\ ci <= Len(normalized["precursors"])
    /\ LET name == GetOr(normalized["precursors"][ci], "name", <<>>)
       IN  IF name = <<>>
           THEN UNCHANGED <<normalized, raw_data, last_call>>
           ELSE \E answer \in PubChemAnswers(name) :
                    LET after == AfterLookup(normalized, ci,
                                             SearchPubchem(answer))
                    IN  /\ normalized' = after
                        /\ raw_data' = Put(raw_data, "precursors",
                                           after["precursors"])
                        /\ last_call' = Call("pubchem", name, 1, 0, <<answer>>)
    /\ ci' = ci + 1
    /\ npc' = "chemicals"
    /\ UNCHANGED <<pipelineVars, batchVars, db, new_conditions, ni, value,
                   std_unit, norm_cond, check_ok, warning, failed>>

\* lines 71-72 and 87
ValidateChemicalsReturn ==
    /\ npc \in {"done", "chemicals"}
    /\ "precursors" \in DOMAIN normalized => ci > Len(normalized["precursors"])
    /\ npc' = "validated"
    /\ UNCHANGED <<pipelineVars, batchVars, ci, last_call, db, raw_data, normalized,
                   new_conditions, ni, value, std_unit, norm_cond, check_ok,
                   warning, failed>>

\* ----------------------------------------- _validate_reaction_logic, 89-140
\* the verdicts a model can return, and objects that miss a field
JudgeObjects ==
    {[valid |-> JTrue, reason |-> "plausible"],
     [valid |-> JFalse, reason |-> "no metal source",
      missing_elements |-> "Zn"],
     [valid |-> JFalse],
     [reason |-> "plausible"],
     EmptyDict}

JudgeReplies == RepliesWith(JudgeObjects)

\* (variant: the judge is skipped only for a record with no precursors)
JudgeSkippedNoPrecursors(record) == GetOr(record, "precursors", <<>>) = <<>>

\* lines 91-96: `not precursors or target == 'Unknown'`, the target defaulting
\* to 'Unknown'
JudgeSkipped(record) ==
    \/ GetOr(record, "precursors", <<>>) = <<>>
    \/ GetOr(record, "target_material", "Unknown") = "Unknown"

\* lines 91-93, 98-104: what the prompt is built from
JudgePrompt(record) ==
    LET precs == GetOr(record, "precursors", <<>>)
    IN  [target |-> GetOr(record, "target_material", "Unknown"),
         method |-> GetOr(record, "method_type", "Unknown"),
         precursors |-> [i \in 1..Len(precs) |-> Get(precs[i], "name")]]

\* lines 124-135: the record after the answer to the one request; any
\* exception, a status other than 200 and a response that json.loads
\* rejects leave it as it was
AfterJudge(record, answer) ==
    LET j == JsonLoads(answer.text)
        llm_data == j.val
        judged == Put(Put(record, "chemistry_valid",
                          GetOr(llm_data, "valid", JFalse)),
                      "chemistry_reason", GetOr(llm_data, "reason", "Unknown"))
        logic == IF Truthy(Get(llm_data, "valid")) THEN <<>>
                 ELSE <<Warning("Chemical Logic Error", 0,
                                <<Get(llm_data, "reason")>>)>>
        missing == IF Truthy(Get(llm_data, "missing_elements"))
                   THEN <<Warning("Missing Elements", 0,
                                  <<Get(llm_data, "missing_elements")>>)>>
                   ELSE <<>>
    IN  IF answer.kind = "text" /\ j.ok
        THEN [judged EXCEPT !["warnings"] = @ \o logic \o missing]
        ELSE record

\* lines 89-140, the whole function: one requests.post to the inference
\* service, with no timeout and no second attempt
ValidateReactionLogic ==
    /\ npc = "validated"
    /\ IF JudgeSkipped(normalized)
       THEN UNCHANGED <<normalized, last_call>>
       ELSE \E answer \in JudgeReplies :
                /\ normalized' = AfterJudge(normalized, answer)
                /\ last_call' = Call("judge", JudgePrompt(normalized),
                                     1, 0, <<answer>>)
    /\ npc' = "analyzed"
    /\ UNCHANGED <<pipelineVars, batchVars, ci, db, raw_data, new_conditions,
                   ni, value, std_unit, norm_cond, check_ok, warning, failed>>

\* ------------------------------------------------------ main.py, 154-219
\* the database before the run: empty, or holding the document from an
\* earlier run
StoredBefore ==
    {EmptyDb,
     [EmptyDb EXCEPT !.papers = <<PaperRow(1, FILE, Doi(FILE))>>,
                     !.syntheses = <<[id |-> 1, paper_id |-> 1,
                                      target_material |-> "ZnO",
                                      method_type |-> "Sol-gel"]>>]}

\* main.py 184-191: init_db and insert_paper
SavePaper ==
    /\ npc = "analyzed"
    /\ db' = [db EXCEPT !.papers = InsertPaper(@, FILE, Doi(FILE)).papers]
    /\ npc' = "paper_saved"
    /\ UNCHANGED <<pipelineVars, batchVars, ci, last_call, raw_data, normalized,
                   new_conditions, ni, value, std_unit, norm_cond, check_ok,
                   warning, failed>>

\* main.py 194-219: the synthesis of save_data (the analysed record), then
\* its precursors and its conditions
SaveSynthesis ==
    /\ npc = "paper_saved"
    /\ LET paper_id == InsertPaper(db.papers, FILE, Doi(FILE)).id
           synthesis_id == Len(db.syntheses) + 1
       IN  db' = [db EXCEPT
                    !.syntheses =
                        Append(@, [id |-> synthesis_id, paper_id |-> paper_id,
                                   target_material |->
                                       GetOr(normalized, "target_material",
                                             "Unknown"),
                                   method_type |->
                                       GetOr(normalized, "method_type",
                                             "Unknown")]),
                    !.precursors = @ \o PrecursorRows(synthesis_id, normalized),
                    !.conditions = @ \o ConditionRows(synthesis_id, normalized)]
    /\ npc' = "saved"
    /\ UNCHANGED <<pipelineVars, batchVars, ci, last_call, raw_data, normalized,
                   new_conditions, ni, value, std_unit, norm_cond, check_ok,
                   warning, failed>>

\* the records analysed and stored: conditions in range, flagged, dropped
\* and raising; precursors none, one, several, one of them unnamed
AnalyzeConditionLists ==
    {<<>>,
     <<Condition(PARAM_TEMPERATURE, <<"1", "0", "0">>, <<"C">>)>>,
     <<Condition(PARAM_TEMPERATURE, <<"-", "3", "0", "0">>, <<"C">>),
       Condition(PARAM_TIME, <<"2">>, <<"h">>)>>,
     <<EmptyDict,
       Condition(PARAM_TEMPERATURE, <<"4", "0", "0", "1">>, <<"K">>)>>,
     <<Condition(PARAM_TIME, <<"2">>, <<"h">>),
       [parameter |-> PARAM_TEMPERATURE, value |-> StrVal(<<"a", "b", "c">>)]>>}

AnalyzeTargets == {"Unknown", "ZnO", None}

AnalyzeRecords ==
    LET bare == {[conditions |-> cs, method_type |-> "Sol-gel"] :
                    cs \in AnalyzeConditionLists}
        named == bare \cup {Put(r, "target_material", t) :
                               r \in bare, t \in AnalyzeTargets}
    IN  named \cup {Put(r, "precursors", ps) :
                       r \in named, ps \in PrecursorLists}

InitAnalyze ==
    /\ BatchIdle
    /\ attempts \in 1..MaxAttempts
    /\ hybrid = FALSE
    /\ compare = FALSE
    /\ is_pdf = FALSE
    /\ pc = "idle"
    /\ response_text = <<>>
    /\ IdleState
    /\ raw_data \in AnalyzeRecords
    /\ normalized = EmptyDict
    /\ new_conditions = <<>>
    /\ ni = 1
    /\ npc = "start"
    /\ NormLocalsIdle
    /\ ci = 1
    /\ last_call = NoCall
    /\ db \in StoredBefore

NextAnalyze ==
    \/ NormalizeBegin
    \/ NormalizeStep
    \/ NormalizeFinish
    \/ ValidateChemicalsStep
    \/ ValidateChemicalsReturn
    \/ ValidateReactionLogic
    \/ SavePaper
    \/ SaveSynthesis

SpecAnalyze == InitAnalyze /\ [][NextAnalyze]_vars

\* --------------------------------------- analyze, a second time
\* the record analyze returned is passed to analyze once more
AnalyzeAgain ==
    /\ npc = "analyzed"
    /\ "warnings" \notin DOMAIN raw_data
    /\ raw_data' = normalized
    /\ npc' = "start"
    /\ new_conditions' = <<>>
    /\ ni' = 1
    /\ ci' = 1
    /\ value' = [ok |-> FALSE, num |-> 0, den |-> 1]
    /\ std_unit' = <<>>
    /\ norm_cond' = EmptyDict
    /\ check_ok' = TRUE
    /\ warning' = NoWarning
    /\ failed' = <<>>
    /\ UNCHANGED <<pipelineVars, batchVars, normalized, last_call, db>>

NextReanalyze == NextAnalyze \/ AnalyzeAgain

SpecReanalyze == InitAnalyze /\ [][NextReanalyze]_vars

\* --------------------------------------- insert_paper, call after call
Titles == {"first title", "second title"}

InitDb ==
    /\ PipelineIdle
    /\ BatchIdle
    /\ NormIdle
    /\ AnalysisIdle

\* db_manager.insert_paper, 64-82, for some title and some identifier
InsertPaperCall ==
    /\ \E title \in Titles, doc \in 1..MaxDocs :
           LET r == InsertPaper(db.papers, title, Doi(doc))
           IN  /\ db' = [db EXCEPT !.papers = r.papers]
               /\ last_call' = Call("insert_paper",
                                    [title |-> title, doi |-> Doi(doc)],
                                    1, 0, <<[kind |-> "id", id |-> r.id]>>)
    /\ UNCHANGED <<pipelineVars, batchVars, normVars, ci>>

NextDb == InsertPaperCall

SpecDb == InitDb /\ [][NextDb]_vars

\* --------------------------------- runs over several documents
\* batch_runner.run_batch (21-104), main.process_query (223-257) and the
\* try/finally of main's entry point (274-285).  One call of process_paper
\* is the run that Spec follows step by step; here it is one step that either
\* returns or raises.  An extraction call of run_batch is one step as well:
\* with page images or text as content the gateway does not raise, it returns
\* a record or {}.
ENTRY_BATCH == "run_batch"
ENTRY_QUERY == "process_query"

\* how process_paper can end
PaperOutcomes == {"returned", "raised"}

\* what one iteration of a pass of run_batch stores for the document:
\* the record of the extraction call, {} or {"error": ...}
PassOutcomes == {"data", "empty", "error"}

Event(op, doc) == [op |-> op, doc |-> doc]

\* ------------------------------------------- scraper.search_papers, 8-40
\* what the search index answers to one attempt: an exception, or so many
\* results
SearchAnswers ==
    {[kind |-> "error", found |-> 0]}
        \cup {[kind |-> "results", found |-> k] : k \in 0..MaxDocs}

\* (variant: the first failure ends the search)
SearchPapersNoRetry(n, answers) ==
    LET asked == IF n <= 0 THEN 0 ELSE 1
    IN  [returned |-> IF n <= 0 THEN "None" ELSE "list",
         found |-> IF asked = 0 THEN 0 ELSE answers[1].found,
         requests |-> asked,
         sleeps |-> 0,
         answers |-> SubSeq(answers, 1, asked)]

\* lines 16-40, for n configured attempts and the answers the index would
\* give to each: the first attempt that does not raise returns its results;
\* a failed attempt that is not the last is followed by a sleep, the last
\* one by `return []`; with no attempt at all the loop body never runs and
\* the function returns None
SearchPapers(n, answers) ==
    LET wins == {i \in 1..n : answers[i].kind = "results"}
        asked == IF n <= 0 THEN 0 ELSE IF wins = {} THEN n ELSE SetMin(wins)
    IN  [returned |-> IF n <= 0 THEN "None" ELSE "list",
         found |-> IF wins = {} THEN 0 ELSE answers[asked].found,
         requests |-> asked,
         sleeps |-> IF asked = 0 THEN 0 ELSE asked - 1,
         answers |-> SubSeq(answers, 1, asked)]

InitBatch ==
    /\ attempts \in 0..MaxAttempts
    /\ hybrid = FALSE
    /\ compare = FALSE
    /\ is_pdf = FALSE
    /\ pc = "idle"
    /\ response_text = <<>>
    /\ IdleState
    /\ NormIdle
    /\ AnalysisIdle
    /\ entry \in {ENTRY_BATCH, ENTRY_QUERY}
    /\ workers \in 1..MaxWorkers
    /\ entry = ENTRY_BATCH => workers = 1
    /\ results = 0
    /\ res_index = 1
    /\ pdf_paths = <<>>
    /\ bpc = "search"
    /\ bi = 1
    /\ vision_results = EmptyDict
    /\ text_results = EmptyDict
    /\ queue = <<>>
    /\ running = {}
    /\ paper_outcome = EmptyDict
    /\ events = <<>>
    /\ stage = EmptyDict
    /\ files = [title \in 1..MaxDocs |-> "absent"]

\* batch_runner 32, main 226: the call of search_papers; the None of a search
\* with no attempt ends process_query at `if not results` (an empty download
\* loop here) and raises TypeError in run_batch's `for res in results`
Search ==
    /\ bpc = "search"
    /\ \E answers \in [1..attempts -> SearchAnswers] :
           LET r == SearchPapers(attempts, answers)
           IN  /\ results' = r.found
               /\ last_call' = Call("search", <<>>, r.requests, r.sleeps,
                                    r.answers)
               /\ bpc' = IF r.returned = "None" /\ entry = ENTRY_BATCH
                         THEN "crashed" ELSE "download"
    /\ UNCHANGED <<stage, files, pipelineVars, normVars, ci, db, entry, workers, res_index,
                   pdf_paths, bi, vision_results, text_results, queue, running,
                   paper_outcome, events>>

\* ------------------------------------------- scraper.download_pdf, 42-78
\* how one attempt of a download ends: requests.get or raise_for_status
\* raises before the file is opened; the stream breaks while the chunks are
\* written, which leaves what was written so far; or the file is written
DownloadAnswers == {"refused", "broken", "complete"}

\* the file of the title after these attempts, in order
Written(answers) ==
    IF answers = <<>> THEN "absent"
    ELSE IF answers[Len(answers)] = "complete" THEN "complete"
    ELSE IF \E i \in 1..Len(answers) : answers[i] = "broken" THEN "partial"
    ELSE "absent"

\* download_pdf(url, output_dir, title) with n attempts configured: the path
\* of a file that exists is returned at once; otherwise the attempts go on
\* until one completes, the last failure being raised; range(0) makes no
\* attempt and the function returns None
DownloadPdf(disk, title, n, answers) ==
    IF disk[title] # "absent"
    THEN [files |-> disk, result |-> "path", requests |-> 0, sleeps |-> 0,
          answers |-> <<"exists">>]
    ELSE LET good == {i \in 1..n : answers[i] = "complete"}
             asked == IF n <= 0 THEN 0
                      ELSE IF good = {} THEN n ELSE SetMin(good)
             made == SubSeq(answers, 1, asked)
         IN  [files |-> [disk EXCEPT ![title] = Written(made)],
              result |-> IF n <= 0 THEN "None"
                         ELSE IF good = {} THEN "raised" ELSE "path",
              requests |-> asked,
              sleeps |-> IF asked = 0 THEN 0 ELSE asked - 1,
              answers |-> made]

\* the answers of n attempts
AnswerLists(n) == [1..n -> DownloadAnswers]

\* batch_runner 35-40, main 236-242: download_pdf for the next result, whose
\* title is its own; a failed download is logged and skipped
Download ==
    /\ bpc = "download"
    /\ res_index <= results
    /\ \E answers \in AnswerLists(attempts) :
         LET r == DownloadPdf(files, res_index, attempts, answers)
         IN  /\ files' = r.files
             /\ pdf_paths' = IF r.result = "path"
                             THEN Append(pdf_paths, res_index) ELSE pdf_paths
    /\ res_index' = res_index + 1
    /\ UNCHANGED <<stage, analysisVars, pipelineVars, normVars, entry, workers,
                   results, bpc, bi, vision_results, text_results, queue,
                   running, paper_outcome, events>>

\* batch_runner 42-48: nothing downloaded ends the run
BatchDownloaded ==
    /\ bpc = "download"
    /\ entry = ENTRY_BATCH
    /\ res_index > results
    /\ bpc' = IF pdf_paths = <<>> THEN "done" ELSE "vision"
    /\ bi' = 1
    /\ UNCHANGED <<stage, files, analysisVars, pipelineVars, normVars, entry, workers,
                   results, res_index, pdf_paths, vision_results, text_results,
                   queue, running, paper_outcome, events>>

\* the requests of one extraction call reach the service with this model
Request(model) ==
    /\ unreleased_switch' =
           (unreleased_switch \/ last_model \notin {"none", model})
    /\ last_model' = model

\* batch_runner 49-57: one document of the vision pass; read_file raising is
\* caught and stored as an error, and no extraction call is made
VisionDoc ==
    /\ bpc = "vision"
    /\ bi <= Len(pdf_paths)
    /\ \E r \in PassOutcomes :
         /\ vision_results' = Put(vision_results, pdf_paths[bi], r)
         /\ IF r = "error" THEN UNCHANGED residencyVars
            ELSE Request(MODEL_VISION)
    /\ events' = Append(events, Event("vision", pdf_paths[bi]))
    /\ bi' = bi + 1
    /\ UNCHANGED <<stage, files, analysisVars, inputVars, paperVars, calls, gatewayVars,
                   normVars, entry, workers, results, res_index, pdf_paths, bpc,
                   text_results, queue, running, paper_outcome>>

\* (variant: the text pass starts without the release of line 63)
ReleaseVisionSkipped ==
    /\ bpc = "vision"
    /\ bi > Len(pdf_paths)
    /\ bpc' = "text"
    /\ bi' = 1
    /\ UNCHANGED <<stage, files, analysisVars, pipelineVars, normVars, entry, workers,
                   results, res_index, pdf_paths, vision_results, text_results,
                   queue, running, paper_outcome, events>>

\* batch_runner 62-67: the release between the passes
ReleaseVision ==
    /\ bpc = "vision"
    /\ bi > Len(pdf_paths)
    /\ UnloadModel
    /\ events' = Append(events, Event("unload", 0))
    /\ bpc' = "text"
    /\ bi' = 1
    /\ UNCHANGED <<stage, files, analysisVars, inputVars, paperVars, calls, gatewayVars,
                   normVars, entry, workers, results, res_index, pdf_paths,
                   vision_results, text_results, queue, running, paper_outcome>>

\* batch_runner 68-90: one document of the text pass; PdfReader or
\* extract_text raising is caught and stored as an error
TextDoc ==
    /\ bpc = "text"
    /\ bi <= Len(pdf_paths)
    /\ \E r \in PassOutcomes :
         /\ text_results' = Put(text_results, pdf_paths[bi], r)
         /\ IF r = "error" THEN UNCHANGED residencyVars
            ELSE Request(MODEL_TEXT)
    /\ events' = Append(events, Event("text", pdf_paths[bi]))
    /\ bi' = bi + 1
    /\ UNCHANGED <<stage, files, analysisVars, inputVars, paperVars, calls, gatewayVars,
                   normVars, entry, workers, results, res_index, pdf_paths, bpc,
                   vision_results, queue, running, paper_outcome>>

\* batch_runner 92-104: the release after the text pass, then the results
\* are written out
ReleaseText ==
    /\ bpc = "text"
    /\ bi > Len(pdf_paths)
    /\ UnloadModel
    /\ events' = Append(events, Event("unload", 0))
    /\ bpc' = "done"
    /\ UNCHANGED <<stage, files, analysisVars, inputVars, paperVars, calls, gatewayVars,
                   normVars, entry, workers, results, res_index, pdf_paths, bi,
                   vision_results, text_results, queue, running, paper_outcome>>

\* main 228-230, 244-257: no search result ends the call; otherwise every
\* downloaded document is submitted to the pool, or the serial loop starts
QueryDownloaded ==
    /\ bpc = "download"
    /\ entry = ENTRY_QUERY
    /\ res_index > results
    /\ IF results = 0 THEN bpc' = "returned" /\ queue' = queue
       ELSE IF workers > 1 THEN bpc' = "pool" /\ queue' = pdf_paths
       ELSE bpc' = "serial" /\ queue' = queue
    /\ bi' = 1
    /\ UNCHANGED <<stage, files, analysisVars, pipelineVars, normVars, entry, workers,
                   results, res_index, pdf_paths, vision_results, text_results,
                   running, paper_outcome, events>>

\* where a pool thread is in process_paper: before its first gateway call,
\* inside a call, between two calls, or past the last one
InTextCall == {"step_a"}
InVisionCall == {"step_b_call", "step_c", "vision"}
InCall == InTextCall \cup InVisionCall

\* the place and the working record of a thread
Thread(at, record) == [at |-> at, data |-> record]

\* main 247-248: a free pool thread takes the next submitted document and
\* enters process_paper with a record of its own
PoolStart ==
    /\ bpc = "pool"
    /\ queue # <<>>
    /\ Cardinality(running) < workers
    /\ running' = running \cup {Head(queue)}
    /\ queue' = Tail(queue)
    /\ stage' = Put(stage, Head(queue), Thread("start", EmptyDict))
    /\ events' = Append(events, Event("paper", Head(queue)))
    /\ UNCHANGED <<files, analysisVars, pipelineVars, normVars, entry, workers,
                   results, res_index, pdf_paths, bpc, bi, vision_results,
                   text_results, paper_outcome>>

\* the gateway call a thread makes next, by its place: hybrid runs the text
\* pass, then a classification per image, then the vision pass if an image
\* was kept (main.py 99-119); the legacy modes send the page images of the
\* PDF to the vision model (main.py 133-142)
NextCalls(at) ==
    IF hybrid
    THEN CASE at = "start" -> {"step_a"}
           [] at = "step_b" -> {"step_b_call", "step_c"}
           [] OTHER -> {}
    ELSE IF at = "start" THEN {"vision"} ELSE {}

\* the place a thread is in when its gateway call has returned
AfterCall(at) ==
    CASE at = "step_a" -> "step_b"
      [] at = "step_b_call" -> "step_b"
      [] OTHER -> "extracted"

\* (variant: the threads work on one record)
PoolReturnShared(doc, record) ==
    [d \in DOMAIN stage |->
        Thread(IF d = doc THEN AfterCall(stage[d].at) ELSE stage[d].at,
               IF stage[doc].at = "step_b_call" THEN stage[d].data ELSE record)]

\* the record of the thread of doc after a call: an extraction call gives its
\* record (main.py 99-101, 119-129, 142), a classification leaves it alone
PoolReturned(doc, record) ==
    [stage EXCEPT ![doc] =
        Thread(AfterCall(@.at),
               IF @.at = "step_b_call" THEN @.data ELSE record)]

\* a thread sends the requests of its next gateway call; no lock is taken
PoolCall ==
    /\ bpc = "pool"
    /\ \E doc \in running :
         /\ ~(stage[doc].at \in InCall)
         /\ \E at \in NextCalls(stage[doc].at) :
              /\ stage' = [stage EXCEPT ![doc].at = at]
              /\ Request(IF at \in InTextCall THEN MODEL_TEXT ELSE MODEL_VISION)
    /\ UNCHANGED <<files, analysisVars, inputVars, paperVars, calls,
                   gatewayVars, normVars, entry, workers, results, res_index,
                   pdf_paths, bpc, bi, vision_results, text_results, queue,
                   running, paper_outcome, events>>

\* the gateway call of a thread returns {} or a record of its document
PoolReturn ==
    /\ bpc = "pool"
    /\ \E doc \in running :
         /\ stage[doc].at \in InCall
         /\ \E record \in {EmptyDict, [paper |-> doc]} :
              stage' = PoolReturned(doc, record)
    /\ UNCHANGED <<files, analysisVars, pipelineVars, normVars, entry, workers,
                   results, res_index, pdf_paths, bpc, bi, vision_results,
                   text_results, queue, running, paper_outcome, events>>

\* main 248-253: process_paper ends in its thread, outside any gateway call,
\* and its locals are gone; an exception is kept in the future, and
\* future.result() re-raising it is caught and logged
PoolFinish ==
    /\ bpc = "pool"
    /\ \E d \in running, o \in PaperOutcomes :
         /\ ~(stage[d].at \in InCall)
         /\ running' = running \ {d}
         /\ stage' = [doc \in running \ {d} |-> stage[doc]]
         /\ paper_outcome' = Put(paper_outcome, d, o)
    /\ UNCHANGED <<files, analysisVars, pipelineVars, normVars, entry,
                   workers, results, res_index, pdf_paths, bpc, bi,
                   vision_results, text_results, queue, events>>

\* main 247-253: the with block ends when every future has completed
PoolDone ==
    /\ bpc = "pool"
    /\ queue = <<>>
    /\ running = {}
    /\ bpc' = "returned"
    /\ UNCHANGED <<stage, files, analysisVars, pipelineVars, normVars, entry, workers,
                   results, res_index, pdf_paths, bi, vision_results,
                   text_results, queue, running, paper_outcome, events>>

\* main 254-257: the serial loop calls process_paper outside any try, so
\* an exception of process_paper leaves the loop and process_query
SerialPaper ==
    /\ bpc = "serial"
    /\ bi <= Len(pdf_paths)
    /\ \E o \in PaperOutcomes :
         /\ paper_outcome' = Put(paper_outcome, pdf_paths[bi], o)
         /\ bpc' = IF o = "raised" THEN "raised" ELSE "serial"
    /\ events' = Append(events, Event("paper", pdf_paths[bi]))
    /\ bi' = bi + 1
    /\ UNCHANGED <<stage, files, analysisVars, pipelineVars, normVars, entry, workers,
                   results, res_index, pdf_paths, vision_results, text_results,
                   queue, running>>

\* main 256-257: the serial loop is exhausted
SerialDone ==
    /\ bpc = "serial"
    /\ bi > Len(pdf_paths)
    /\ bpc' = "returned"
    /\ UNCHANGED <<stage, files, analysisVars, pipelineVars, normVars, entry, workers,
                   results, res_index, pdf_paths, bi, vision_results,
                   text_results, queue, running, paper_outcome, events>>

\* main 274-285: the finally block releases the models whether
\* process_query returned or raised
QueryCleanup ==
    /\ bpc \in {"returned", "raised"}
    /\ UnloadModel
    /\ events' = Append(events, Event("unload", 0))
    /\ bpc' = IF bpc = "raised" THEN "crashed" ELSE "done"
    /\ UNCHANGED <<stage, files, analysisVars, inputVars, paperVars, calls, gatewayVars,
                   normVars, entry, workers, results, res_index, pdf_paths, bi,
                   vision_results, text_results, queue, running, paper_outcome>>

NextBatch ==
    \/ Search
    \/ Download
    \/ BatchDownloaded
    \/ VisionDoc \/ ReleaseVision
    \/ TextDoc \/ ReleaseText
    \/ QueryDownloaded
    \/ PoolStart \/ PoolCall \/ PoolReturn \/ PoolFinish \/ PoolDone
    \/ SerialPaper \/ SerialDone
    \/ QueryCleanup

SpecBatch == InitBatch /\ [][NextBatch]_vars

\* ------------------------------------------ the pool of process_query
\* the documents a download loop can leave: some of the results, in order
DownloadedLists(n) ==
    {l \in UNION {[1..k -> 1..n] : k \in 1..n} :
        \A i \in 1..(Len(l) - 1) : l[i] < l[i + 1]}

\* process_query at line 245, with several workers and in either mode: the
\* search gave results, the download loop is over and left some documents
InitPool ==
    /\ NormIdle
    /\ AnalysisIdle
    /\ attempts = 1
    /\ hybrid \in BOOLEAN
    /\ compare = FALSE
    /\ is_pdf = FALSE
    /\ pc = "idle"
    /\ response_text = <<>>
    /\ IdleState
    /\ entry = ENTRY_QUERY
    /\ workers \in 2..MaxWorkers
    /\ results \in 1..MaxDocs
    /\ res_index = results + 1
    /\ pdf_paths \in DownloadedLists(results)
    /\ files = [title \in 1..MaxDocs |->
                   IF \E i \in 1..Len(pdf_paths) : pdf_paths[i] = title
                   THEN "complete" ELSE "absent"]
    /\ bpc = "pool"
    /\ bi = 1
    /\ vision_results = EmptyDict
    /\ text_results = EmptyDict
    /\ queue = pdf_paths
    /\ running = {}
    /\ paper_outcome = EmptyDict
    /\ events = <<>>
    /\ stage = EmptyDict

NextPool ==
    \/ PoolStart \/ PoolCall \/ PoolReturn \/ PoolFinish \/ PoolDone
    \/ QueryCleanup

SpecPool == InitPool /\ [][NextPool]_vars

\* ---------------------------------------- download_pdf, call after call
\* the calls of download_pdf that successive runs make into one download
\* directory, which starts empty; res_index counts the calls
InitDownload ==
    /\ BatchIdle
    /\ NormIdle
    /\ AnalysisIdle
    /\ attempts \in 1..MaxAttempts
    /\ hybrid = FALSE
    /\ compare = FALSE
    /\ is_pdf = FALSE
    /\ pc = "idle"
    /\ response_text = <<>>
    /\ IdleState

\* scraper.download_pdf, 42-78, for some title and some course of attempts
DownloadCall ==
    /\ res_index <= MaxCalls
    /\ \E title \in 1..MaxDocs, answers \in AnswerLists(attempts) :
         LET r == DownloadPdf(files, title, attempts, answers)
         IN  /\ files' = r.files
             /\ last_call' = Call("download", <<title>>, r.requests, r.sleeps,
                                  [i \in 1..Len(r.answers) |->
                                      [kind |-> r.answers[i]]])
    /\ res_index' = res_index + 1
    /\ UNCHANGED <<pipelineVars, normVars, ci, db, entry, workers, results,
                   pdf_paths, bpc, bi, vision_results, text_results, queue,
                   running, paper_outcome, events, stage>>

NextDownload == DownloadCall

SpecDownload == InitDownload /\ [][NextDownload]_vars


\* ------------------------------------------------------------ properties
Target(d) == Get(d, "target_material")

\* C1: retry exhaustion.  A gateway call never issues more requests than the
\* configured attempt count, it raises only before its first request, and
\* when it returns with every attempt failed (attempts >= 1) it has issued
\* exactly attempts requests and returns the empty object.
C1_RetryExhaustion ==
    /\ requests <= attempts
    /\ gpc = "raised" => requests = 0
    /\ (gpc = "ret" /\ attempts >= 1 /\ failures = requests)
         => (requests = attempts /\ gresult = EmptyDict)

C1_Witness ==
    /\ gpc = "ret" /\ attempts >= 2
    /\ failures = requests /\ requests = attempts
    /\ gresult = EmptyDict

\* C2: retry recovery.  When the service answers a request with commentary
\* around one JSON object, that request is the last of the call: the call
\* returns exactly that object, after k - 1 failed requests and this one.
C2_RetryRecovery ==
    reply.wellformed =>
        /\ gpc = "ret"
        /\ gresult = reply.obj
        /\ requests = failures + 1
        /\ requests <= attempts

C2_Witness ==
    /\ gpc = "ret" /\ reply.wellformed
    /\ requests = 2 /\ failures = 1
    /\ "comparison" \in DOMAIN gresult
    /\ response_text[1] = X

\* C3: a malformed response is retried like a transport failure.  Whenever a
\* request is about to be issued, each earlier request of the call used up
\* one attempt and was followed by the inter-attempt delay.
C3_SameDelay ==
    gpc = "post" => (attempt = requests /\ sleeps = requests)

\* C4: JSON-span recovery.  The span that is parsed starts at the first "{"
\* and ends at the last "}" of the text; a text made of brace-free commentary
\* around one JSON object gives that object.
NestedObjects(inner) ==
    inner
    \cup { [comparison |-> d] : d \in inner }
    \cup { [target_material |-> "ZIF-8", comparison |-> d] : d \in inner }

SpanObjects ==
    NestedObjects(NestedObjects({EmptyDict, [target_material |-> "ZIF-8"]}))

SpanObjectTexts == { [text |-> Serialize(d), obj |-> d] : d \in SpanObjects }

BraceFree(t) == \A i \in 1..Len(t) : t[i] \notin {LB, RB}

C4_SpanRecovery ==
    pc = "span_done" =>
        LET t == response_text
            opens == {i \in 1..Len(t) : t[i] = LB}
            closes == {i \in 1..Len(t) : t[i] = RB}
        IN  /\ json_match.found =>
                /\ json_match.start = SetMin(opens)
                /\ json_match.end = SetMax(closes)
            /\ \A o \in SpanObjectTexts : \A i \in 1..Len(t) :
                 LET j == i + Len(o.text) - 1
                 IN  ( /\ j <= Len(t)
                       /\ SubSeq(t, i, j) = o.text
                       /\ BraceFree(SubSeq(t, 1, i - 1))
                       /\ BraceFree(SubSeq(t, j + 1, Len(t))) )
                     => (outcome = "returned" /\ gresult = o.obj)

C4_Witness ==
    /\ pc = "span_done"
    /\ response_text =
         <<X, LB, KeyOf("comparison"), LB, RB, RB>>
    /\ json_match = [found |-> TRUE, start |-> 2, end |-> 6]
    /\ gresult = [comparison |-> EmptyDict]

\* C5: hybrid gap fill.  After the hybrid extraction, a text target of
\* "Unknown" with a named vision target gives the vision target; a concrete
\* text target is kept, whatever the vision pass returned.
C5_GapFill ==
    (pc = "extracted" /\ hybrid) =>
        /\ ( /\ "vision" \in calls
             /\ Target(text_result) = "Unknown"
             /\ Target(vision_result) \notin {None, ""} )
           => Target(data) = Target(vision_result)
        /\ Target(text_result) \notin {None, "Unknown"}
           => Target(data) = Target(text_result)

C5_Witness ==
    /\ pc = "extracted" /\ hybrid /\ "vision" \in calls
    /\ Target(text_result) = "Unknown"
    /\ Target(vision_result) = "MOF-5"
    /\ Target(data) = "MOF-5"

\* C6: the hybrid merge is additive.  After the hybrid extraction the
\* text-derived fields other than target_material are those of the text
\* pass, the only key added is visual_evidence_data, and it holds the vision
\* result.
TextFields == {"method_type", "description", "precursors", "conditions"}

C6_AdditiveMerge ==
    (pc = "extracted" /\ hybrid) =>
        /\ \A key \in TextFields :
             /\ key \in DOMAIN data <=> key \in DOMAIN text_result
             /\ Get(data, key) = Get(text_result, key)
        /\ DOMAIN data \subseteq (DOMAIN text_result) \cup {"visual_evidence_data"}
        /\ "vision" \in calls =>
             /\ "visual_evidence_data" \in DOMAIN data
             /\ data["visual_evidence_data"] = vision_result

C6_Witness ==
    /\ pc = "extracted" /\ hybrid /\ "vision" \in calls
    /\ text_result = Recipe("ZIF-8", "Hydrothermal", "d2", "p2", "c2")
    /\ vision_result = Recipe("MOF-5", "Solid-state", "d3", "p3", "c3")

\* C7: the hybrid classification filter.  A classified image is appended to
\* the images of the vision pass exactly when its classification has
\* relevant = true and a type among graph, flowchart, table (an empty
\* classification has neither); the vision pass is sent no other image.
ImageIds(l) == [i \in 1..Len(l) |-> l[i].id]

C7_ClassificationFilter ==
    [][ /\ (pc = "step_b_wait" /\ pc' = "step_b") =>
             relevant_images' =
                IF /\ Get(gresult, "relevant") = JTrue
                   /\ Get(gresult, "type") \in {"graph", "flowchart", "table"}
                THEN Append(relevant_images, images[img_index])
                ELSE relevant_images
        /\ (pc = "step_b" /\ pc' = "step_c_wait") =>
             /\ images_b64' = SubSeq(ImageIds(relevant_images), 1, Len(images_b64'))
             /\ images_b64' # <<>>
      ]_vars

C7_Witness ==
    /\ pc = "step_c_wait"
    /\ Len(images) = 2
    /\ ImageIds(relevant_images) = <<2>>
    /\ images_b64 = <<2>>

\* C8: dual mode runs the text extraction and the vision extraction for the
\* same document on every call, and returns both results.
C8_DualRunsBoth ==
    (pc = "extracted" /\ ~hybrid /\ compare /\ attempts >= 1) =>
        /\ {"vision", "text"} \subseteq calls
        /\ data["vision_extraction"] = vision_result
        /\ data["text_extraction"] = text_result

\* C9: the derived record of dual mode.  Its top-level fields are those of
\* the vision result, and its comparison block is the computed one: both
\* target materials, and match exactly when they are equal.
C9_DualDerived ==
    (pc = "extracted" /\ ~hybrid /\ compare) =>
        /\ \A key \in (DOMAIN vision_result) \ {"comparison"} :
             key \in DOMAIN data /\ data[key] = vision_result[key]
        /\ DOMAIN data["comparison"] = {"vision_material", "text_material", "match"}
        /\ data["comparison"]["vision_material"] = Target(vision_result)
        /\ data["comparison"]["text_material"] = Target(text_result)
        /\ data["comparison"]["match"] <=>
             (Target(vision_result) = Target(text_result))

C9_Witness ==
    /\ pc = "extracted" /\ ~hybrid /\ compare
    /\ "comparison" \in DOMAIN vision_result
    /\ Target(data) = "MOF-5"
    /\ data["comparison"]["vision_material"] = "MOF-5"
    /\ data["comparison"]["match"] = FALSE

\* C10: model release on switch.  No inference request to one model follows
\* a request to the other model without a release in between.
C10_ReleaseOnSwitch == ~unreleased_switch

\* operations of the log, without their documents
Ops(log) == [i \in 1..Len(log) |-> log[i].op]

\* the operation op on each document of paths, in order
PassOver(op, paths) == [i \in 1..Len(paths) |-> Event(op, paths[i])]

\* C11: in run_batch every per-document vision step precedes every
\* per-document text step with a release between the two, no request reaches
\* one model after a request to the other without a release, and a finished
\* run has issued exactly: vision on every downloaded document in download
\* order, a release, text on every downloaded document in download order, a
\* release -- whatever the outcome of each step was.
C11_BatchOrder ==
    entry = ENTRY_BATCH =>
        /\ \A i, j \in 1..Len(events) :
               (events[i].op = "vision" /\ events[j].op = "text") =>
                   /\ i < j
                   /\ \E k \in (i + 1)..(j - 1) : events[k].op = "unload"
        /\ ~unreleased_switch
        /\ (bpc = "done" /\ pdf_paths # <<>>) =>
               events = PassOver("vision", pdf_paths)
                            \o <<Event("unload", 0)>>
                            \o PassOver("text", pdf_paths)
                            \o <<Event("unload", 0)>>

\* a finished batch of two documents, one failed in the vision pass and the
\* other in the text pass
C11_Witness ==
    /\ entry = ENTRY_BATCH
    /\ bpc = "done"
    /\ Len(pdf_paths) = 2
    /\ vision_results[pdf_paths[1]] = "error"
    /\ vision_results[pdf_paths[2]] = "data"
    /\ text_results[pdf_paths[1]] = "data"
    /\ text_results[pdf_paths[2]] = "error"
    /\ Ops(events) = <<"vision", "vision", "unload", "text", "text", "unload">>

\* documents a per-document operation was started on
Attempted == {events[i].doc : i \in {k \in 1..Len(events) : events[k].op # "unload"}}

Downloaded == {pdf_paths[i] : i \in 1..Len(pdf_paths)}

\* C12: when a run has ended (run_batch, process_query with one worker or
\* with several), every downloaded document has been processed, whichever
\* documents raised.
C12_FailureContainment ==
    bpc \in {"done", "crashed"} => Downloaded \subseteq Attempted

\* the loop of _normalize_data has handled at least one condition
Stepped == "conditions" \in DOMAIN raw_data /\ ni > 1

\* the condition the loop handled last
LastIn == raw_data["conditions"][ni - 1]

\* the condition handled last was kept and checked
LastChecked == Stepped /\ KeepCondition(norm_cond) /\ npc # "raised"

\* the hundredths round(num / den, 2) can give
Rounded(num, den) == {Round2(num, den, up) : up \in BOOLEAN}

IsTemp(param) == Contains(<<"t", "e", "m", "p">>, param)
IsTime(param) ==
    \/ Contains(<<"t", "i", "m", "e">>, param)
    \/ Contains(<<"d", "u", "r", "a", "t", "i", "o", "n">>, param)

C14_UnitTable ==
    (Stepped /\ value.ok) =>
        LET u == UnitStrOf(LastIn)
            celsius == {<<"c">>, CELSIUS, <<"°", "c">>}
            kelvin == {<<"k">>, KELVIN}
            fahrenheit == {<<"f">>, FAHRENHEIT}
            hours == {<<"h">>, <<"h", "r">>, HOURS}
            minutes == {UNIT_MIN, <<"m">>, MINUTES}
            seconds == {<<"s">>, <<"s", "e", "c">>, SECONDS}
            days == {<<"d">>, DAYS}
        IN  /\ u \in celsius => std_unit = CELSIUS
            /\ u \in kelvin => std_unit = KELVIN
            /\ u \in fahrenheit => std_unit = FAHRENHEIT
            /\ u \in hours => std_unit = HOURS
            /\ u \in minutes => std_unit = MINUTES
            /\ u \in seconds => std_unit = SECONDS
            /\ u \in days => std_unit = DAYS
            /\ u \notin UNION {celsius, kelvin, fahrenheit, hours, minutes,
                               seconds, days} => std_unit = u

\* C15: for a condition whose value parsed, a parameter containing "temp"
\* with a recognised temperature token as unit ends with unit K; a parameter
\* containing "time" or "duration" with a recognised time token as unit ends
\* with unit min; a parameter containing none of the three keeps its value
\* (rounded, not converted).
C15_CanonicalUnit ==
    (Stepped /\ value.ok) =>
        LET p == ParamOf(LastIn)
            u == UnitStrOf(LastIn)
            temperature == {<<"c">>, CELSIUS, <<"°", "c">>, <<"k">>, KELVIN,
                            <<"f">>, FAHRENHEIT}
            time == {<<"h">>, <<"h", "r">>, HOURS, UNIT_MIN, <<"m">>, MINUTES,
                     <<"s">>, <<"s", "e", "c">>, SECONDS, <<"d">>, DAYS}
        IN  /\ (IsTemp(p) /\ u \in temperature) => norm_cond["unit"] = UNIT_K
            /\ (IsTime(p) /\ u \in time) => norm_cond["unit"] = UNIT_MIN
            /\ (~IsTemp(p) /\ ~IsTime(p)) =>
                   norm_cond["value"].centi \in Rounded(value.num, value.den)

\* C16: with the value string stripped of everything but digits, '.' and
\* '-': if it does not start with '-' and a single hyphen separates two
\* non-empty numerals, the parsed value is the mean of the two; if it starts
\* with '-', the parsed value is what float gives for the whole string (a
\* ValueError included); if it is empty, parsing fails; "20-30" gives 25,
\* "-5" gives -5, "abc" fails.
C16_RangeParsing ==
    Stepped =>
        LET str == ValStrOf(LastIn)
            clean == ReSub(str)
            parts == Split(clean, "-")
        IN  /\ ( /\ clean # <<>> /\ clean[1] # "-"
                 /\ Len(parts) = 2 /\ parts[1] # <<>> /\ parts[2] # <<>>
                 /\ Float(parts[1]).ok /\ Float(parts[2]).ok ) =>
                   LET a == Float(parts[1])
                       b == Float(parts[2])
                   IN  /\ value.ok
                       /\ 2 * a.den * b.den * value.num
                              = value.den * (a.num * b.den + b.num * a.den)
            /\ (clean # <<>> /\ clean[1] = "-") => value = Float(clean)
            /\ clean = <<>> => ~value.ok
            /\ str = <<"2", "0", "-", "3", "0">> => value.ok /\ value.num = 25 * value.den
            /\ str = <<"-", "5">> => value.ok /\ value.num = -5 * value.den
            /\ str = <<"a", "b", "c">> => ~value.ok

\* "20-30" has been parsed to 25
C16_Witness ==
    /\ Stepped
    /\ ValStrOf(LastIn) = <<"2", "0", "-", "3", "0">>
    /\ value.ok
    /\ value.num = 25 * value.den
    /\ norm_cond["value"] = NumVal(2500)

\* C17: a finished normalization returns as many conditions as the record
\* had, in the same order, and each condition whose value does not parse is
\* the original dict.
C17_FailOpen ==
    (npc = "done" /\ "conditions" \in DOMAIN raw_data) =>
        /\ Len(normalized["conditions"]) = Len(raw_data["conditions"])
        /\ \A i \in 1..Len(raw_data["conditions"]) :
               ~ParseValue(ValStrOf(raw_data["conditions"][i])).ok =>
                   normalized["conditions"][i] = raw_data["conditions"][i]

\* C18: a checked condition with a numeric value: a temperature in K below 0
\* or above 4000 is rejected, one strictly between 0 and 4000 is accepted, a
\* time or duration below 0 is rejected; a rejection clears
\* physics_check_passed and its warning carries the value.
C18_ValidityThresholds ==
    (LastChecked /\ IsNumber(norm_cond["value"])) =>
        LET p == norm_cond["parameter"]
            c == norm_cond["value"].centi
            u == norm_cond["unit"]
            rejected == /\ ~check_ok
                        /\ warning.val = c
                        /\ normalized["physics_check_passed"] = FALSE
                        /\ normalized["warnings"] # <<>>
                        /\ normalized["warnings"][Len(normalized["warnings"])]
                               = warning
        IN  /\ (IsTemp(p) /\ u = UNIT_K /\ (c < 0 \/ c > 400000)) => rejected
            /\ (IsTemp(p) /\ u = UNIT_K /\ 0 < c /\ c < 400000) => check_ok
            /\ (IsTime(p) /\ c < 0) => rejected

\* 4001 K has been rejected
C18_Witness ==
    /\ Stepped
    /\ LastIn = Condition(PARAM_TEMPERATURE, <<"4", "0", "0", "1">>, <<"K">>)
    /\ ~check_ok
    /\ warning = Warning("Suspiciously High Temperature", 400100, UNIT_K)
    /\ normalized["physics_check_passed"] = FALSE

\* C19: a checked temperature of exactly 0 K is rejected: it clears
\* physics_check_passed and appends a warning.
C19_ZeroKelvin ==
    ( /\ LastChecked /\ IsNumber(norm_cond["value"])
      /\ IsTemp(norm_cond["parameter"]) /\ norm_cond["unit"] = UNIT_K
      /\ norm_cond["value"].centi = 0 ) =>
        /\ ~check_ok
        /\ normalized["physics_check_passed"] = FALSE
        /\ normalized["warnings"] # <<>>

\* C20: after a finished normalization physics_check_passed is false exactly
\* when the check rejected a condition, there are as many warnings as
\* rejected conditions, and every rejected condition is among the record's
\* conditions.
C20_PhysicsFlag ==
    npc = "done" =>
        /\ normalized["physics_check_passed"] = (failed = <<>>)
        /\ Len(normalized["warnings"]) = Len(failed)
        /\ \A k \in 1..Len(failed) :
               \E i \in 1..Len(normalized["conditions"]) :
                   normalized["conditions"][i] = failed[k]

\* a record of two conditions, the second rejected, has been normalized
C20_Witness ==
    /\ npc = "done"
    /\ "conditions" \in DOMAIN raw_data
    /\ raw_data["conditions"]
           = <<Condition(PARAM_TEMPERATURE, <<"1", "0", "0">>, <<"C">>),
               Condition(PARAM_TIME, <<"-", "3", "0">>, <<"m", "i", "n">>)>>
    /\ Len(normalized["conditions"]) = 2
    /\ normalized["physics_check_passed"] = FALSE
    /\ normalized["warnings"] = <<Warning("Impossible Time", -3000, UNIT_MIN)>>

\* c hundredths are the fraction val: c / 100 = num / den, den being a
\* divisor or a multiple of 100
SameNumber(c, val) ==
    IF 100 % val.den = 0 THEN c = val.num * (100 \div val.den)
    ELSE c * (val.den \div 100) = val.num

\* the last condition came in with the canonical unit of its parameter
CanonicalIn ==
    /\ Stepped
    /\ value.ok
    /\ "unit" \in DOMAIN LastIn
    /\ \/ IsTemp(ParamOf(LastIn)) /\ LastIn["unit"] = UNIT_K
       \/ /\ IsTime(ParamOf(LastIn)) /\ ~IsTemp(ParamOf(LastIn))
          /\ LastIn["unit"] = UNIT_MIN

Precs == GetOr(normalized, "precursors", <<>>)

\* the precursor the last step of _validate_chemicals looked up
LookedUp ==
    /\ npc = "chemicals"
    /\ ci > 1
    /\ GetOr(Precs[ci - 1], "name", <<>>) # <<>>

NotFound(name) == Warning("Chemical not found in PubChem", 0, name)

\* the names in the not-found warnings, in order
NotFoundNames ==
    LET found == SelectSeq(normalized["warnings"],
                           LAMBDA w : w.kind = "Chemical not found in PubChem")
    IN  [i \in 1..Len(found) |-> found[i].unit]

\* the names of the precursors marked verified = false, in order
UnverifiedNames ==
    LET marked == SelectSeq(Precs, LAMBDA q : /\ "verified" \in DOMAIN q
                                              /\ ~q["verified"])
    IN  [i \in 1..Len(marked) |-> marked[i]["name"]]

\* C22: the lookup of a named precursor that PubChem answers with a property
\* entry marks it verified and attaches the entry's CID, formula and weight;
\* any other answer marks it unverified and appends a warning with its name.
\* When _validate_chemicals has returned every named precursor is marked, and
\* the not-found warnings name the unverified precursors one for one.
C22_ChemicalLookup ==
    /\ LookedUp =>
          LET prec == Precs[ci - 1]
              answer == last_call.answers[1]
              last == normalized["warnings"][Len(normalized["warnings"])]
          IN  /\ last_call.service = "pubchem"
              /\ last_call.arg = prec["name"]
              /\ IF answer.kind = "found"
                 THEN /\ prec["verified"]
                      /\ prec["pubchem_cid"] = answer.props["CID"]
                      /\ prec["formula"] = answer.props["MolecularFormula"]
                      /\ prec["mw"] = Get(answer.props, "MolecularWeight")
                 ELSE /\ ~prec["verified"]
                      /\ normalized["warnings"] # <<>>
                      /\ last = NotFound(prec["name"])
    /\ npc \in {"validated", "analyzed", "paper_saved", "saved"} =>
          /\ \A i \in 1..Len(Precs) :
                 "verified" \in DOMAIN Precs[i]
                     <=> GetOr(Precs[i], "name", <<>>) # <<>>
          /\ NotFoundNames = UnverifiedNames

\* a failed lookup was followed by a successful one
C22_Witness ==
    /\ npc = "validated"
    /\ Len(Precs) >= 2
    /\ "verified" \in DOMAIN Precs[1] /\ ~Precs[1]["verified"]
    /\ "verified" \in DOMAIN Precs[2] /\ Precs[2]["verified"]
    /\ Len(NotFoundNames) = 1

\* C23: a lookup that ends in a transport failure has been sent as many
\* times as the retry policy of the inference calls allows, with a sleep
\* between two requests.
C23_LookupRetry ==
    /\ last_call.service = "pubchem"
    /\ last_call.answers[Len(last_call.answers)].kind = "timeout"
    => /\ last_call.requests = attempts
       /\ last_call.sleeps = attempts - 1

\* the judge was called and its call has ended
Judged == npc = "analyzed" /\ last_call.service = "judge"

\* C24: the judge's call behaves as a gateway call: a call that ends in a
\* transport failure has been sent as many times as the retry policy allows,
\* and an answer whose text holds a JSON object between its first '{' and
\* last '}' yields that object's verdict.
C24_JudgeThroughGateway ==
    Judged =>
        LET answer == last_call.answers[Len(last_call.answers)]
        IN  /\ answer.kind = "transport" => last_call.requests = attempts
            /\ answer.kind = "text" /\ Recover(answer.text).status = "returned"
                   /\ "valid" \in DOMAIN Recover(answer.text).val
               => /\ "chemistry_valid" \in DOMAIN normalized
                  /\ normalized["chemistry_valid"]
                         = Recover(answer.text).val["valid"]

\* the record has no precursors, or its target is 'Unknown' or absent
SkipCase ==
    \/ "precursors" \notin DOMAIN normalized
    \/ normalized["precursors"] = <<>>
    \/ "target_material" \notin DOMAIN normalized
    \/ normalized["target_material"] = "Unknown"

\* C25: for a record with no precursors, or with the target 'Unknown' or
\* absent, _validate_reaction_logic sends no request and leaves the record,
\* its warnings included, as it was, with no chemistry_valid and no
\* chemistry_reason.
C25_JudgeSkip ==
    [][npc = "validated" /\ SkipCase =>
           /\ normalized' = normalized
           /\ last_call' = last_call
           /\ "chemistry_valid" \notin DOMAIN normalized'
           /\ "chemistry_reason" \notin DOMAIN normalized']_vars

\* the judge was skipped for a record with precursors, for its target
C25_Witness ==
    /\ npc = "analyzed"
    /\ Precs # <<>>
    /\ GetOr(normalized, "target_material", "Unknown") = "Unknown"
    /\ last_call.service = "pubchem"
    /\ "chemistry_valid" \notin DOMAIN normalized

\* C26: after a judge call that failed or whose answer carries no `valid`,
\* chemistry_valid and chemistry_reason are unset; chemistry_valid is false
\* only for an answer that says valid = false.
C26_FailureLeavesUnset ==
    Judged =>
        LET answer == last_call.answers[Len(last_call.answers)]
            j == JsonLoads(answer.text)
            verdict == answer.kind = "text" /\ j.ok /\ "valid" \in DOMAIN j.val
        IN  /\ ~verdict => /\ "chemistry_valid" \notin DOMAIN normalized
                           /\ "chemistry_reason" \notin DOMAIN normalized
            /\ "chemistry_valid" \in DOMAIN normalized
                   /\ normalized["chemistry_valid"] = JFalse
               => verdict /\ j.val["valid"] = JFalse

\* analysis has returned a record it flagged
Flagged ==
    /\ npc \in {"analyzed", "paper_saved", "saved"}
    /\ \/ ~normalized["physics_check_passed"]
       \/ \E i \in 1..Len(Precs) :
              "verified" \in DOMAIN Precs[i] /\ ~Precs[i]["verified"]
       \/ /\ "chemistry_valid" \in DOMAIN normalized
          /\ normalized["chemistry_valid"] = JFalse

\* the rows of a child table that belong to a synthesis
RowsOf(table, synthesis_id) ==
    SelectSeq(table, LAMBDA row : row.synthesis_id = synthesis_id)

\* the synthesis stored last is the analysed record's, under the one paper
\* row of the document, with a precursor row for each of its precursors and
\* a condition row for each of its conditions, in order
StoredAsAnalysed ==
    LET sid == Len(db.syntheses)
        conds == GetOr(normalized, "conditions", <<>>)
        mine == SelectSeq(db.papers, LAMBDA row : row.doi = Doi(FILE))
    IN  /\ sid >= 1
        /\ Len(mine) = 1
        /\ db.syntheses[sid].id = sid
        /\ db.syntheses[sid].paper_id = mine[1].id
        /\ RowsOf(db.precursors, sid)
               = [i \in 1..Len(Precs) |-> PrecursorRow(sid, Precs[i])]
        /\ RowsOf(db.conditions, sid)
               = [i \in 1..Len(conds) |-> ConditionRow(sid, conds[i])]

\* C27: once analysis has returned a flagged record (physics check failed, a
\* precursor unverified, or the judge's verdict false) every step of
\* process_paper is a step of storing it, none raises, and what has been
\* stored at the end is the synthesis with one precursor row per precursor
\* and one condition row per condition of that record.
C27_FlaggedStored ==
    /\ [](npc = "saved" /\ Flagged => StoredAsAnalysed)
    /\ [][/\ Flagged /\ npc = "analyzed" => npc' = "paper_saved"
          /\ Flagged /\ npc = "paper_saved" => npc' = "saved"]_vars

\* a record flagged in all three ways has been stored
C27_Witness ==
    /\ npc = "saved"
    /\ ~normalized["physics_check_passed"]
    /\ Len(Precs) >= 2
    /\ "verified" \in DOMAIN Precs[1] /\ ~Precs[1]["verified"]
    /\ "chemistry_valid" \in DOMAIN normalized
    /\ normalized["chemistry_valid"] = JFalse
    /\ Len(RowsOf(db.precursors, Len(db.syntheses))) = Len(Precs)
    /\ Len(RowsOf(db.conditions, Len(db.syntheses))) = 2

\* the rows of papers that hold an identifier
Holding(papers, doi) == {i \in 1..Len(papers) : papers[i].doi = doi}

\* C28: no two rows of papers hold the same identifier or the same id; a
\* call of insert_paper removes and changes no row, leaves exactly one row
\* with its identifier and returns that row's id; when the identifier was
\* there before the call the table is unchanged.
C28_StorageIdentity ==
    /\ [](\A i, k \in 1..Len(db.papers) :
              i # k => /\ db.papers[i].doi # db.papers[k].doi
                       /\ db.papers[i].id # db.papers[k].id)
    /\ [][last_call'.service = "insert_paper" =>
              LET doi == last_call'.arg.doi
                  id == last_call'.answers[1].id
              IN  /\ SubSeq(db'.papers, 1, Len(db.papers)) = db.papers
                  /\ Cardinality(Holding(db'.papers, doi)) = 1
                  /\ \A i \in Holding(db'.papers, doi) : db'.papers[i].id = id
                  /\ Holding(db.papers, doi) # {} => db'.papers = db.papers
                  /\ last_call'.answers[1].kind = "id"]_vars

\* an identifier stored first was inserted again, under another title, after
\* a second identifier: the first row's id came back
C28_Witness ==
    /\ last_call.service = "insert_paper"
    /\ Len(db.papers) = 2
    /\ last_call.arg.doi = db.papers[1].doi
    /\ last_call.arg.title # db.papers[1].title
    /\ last_call.answers[1].id = db.papers[1].id

\* the images of the list the current call was given
Given == content.imgs

\* C29: while a gateway call given a list of n images is under way, the
\* images of its payload are the first min(n, 3) of the list, in the list's
\* order, and each request sent carries them; the call raises before any
\* request only for one of those first images, never for a later one.
C29_ImageCap ==
    /\ content.kind = "list" /\ gpc \in {"post", "sleep", "ret"} =>
          /\ Len(images_b64) = (IF Len(Given) < ImageCap THEN Len(Given)
                                ELSE ImageCap)
          /\ \A i \in 1..Len(images_b64) : images_b64[i] = Given[i].id
    /\ content.kind = "list" /\ gpc = "raised" =>
          /\ requests = 0
          /\ \E i \in 1..Len(Given) : i <= ImageCap /\ ~Given[i].jpeg_ok

\* a request has been sent for a list longer than the cap whose fourth image
\* is not fit for JPEG
C29_Witness ==
    /\ content.kind = "list"
    /\ Len(Given) > ImageCap
    /\ ~Given[ImageCap + 1].jpeg_ok
    /\ Given[1].id # 1
    /\ requests = 1
    /\ Len(images_b64) = ImageCap

\* C30: with at least one attempt configured, search_papers sends one request
\* after the other until one succeeds, sleeping between two of them, and its
\* caller goes on with the results of that request; when all the configured
\* attempts have failed the caller goes on with no results.  In neither case
\* does an exception reach the caller.
C30_SearchRetry ==
    [][bpc = "search" /\ attempts >= 1 =>
           LET answers == last_call'.answers
               last == answers[Len(answers)]
           IN  /\ last_call'.service = "search"
               /\ bpc' = "download"
               /\ Len(answers) = last_call'.requests
               /\ Len(answers) \in 1..attempts
               /\ last_call'.sleeps = Len(answers) - 1
               /\ \A i \in 1..(Len(answers) - 1) : answers[i].kind = "error"
               /\ IF last.kind = "results" THEN results' = last.found
                  ELSE Len(answers) = attempts /\ results' = 0]_vars

\* the first attempt failed and the second returned results
C30_Witness ==
    /\ last_call.service = "search"
    /\ bpc = "download"
    /\ Len(last_call.answers) = 2
    /\ last_call.answers[1].kind = "error"
    /\ last_call.answers[2].kind = "results"
    /\ results = last_call.answers[2].found
    /\ results >= 1

\* how far the hybrid pipeline of process_paper has come
StepRank(at) ==
    CASE at = "start" -> 0
      [] at = "step_a" -> 1
      [] at = "step_a_wait" -> 2
      [] at \in {"step_b", "step_b_wait"} -> 3
      [] at = "step_c_wait" -> 4
      [] at = "extracted" -> 5
      [] OTHER -> 6

\* a gateway call begins with this step
CallBegins == gprompt = "none" /\ gprompt' # "none"

\* C31: in hybrid mode the text extraction is the first gateway call and is
\* made once; each classification call is for the next harvested image, after
\* the text extraction and before any vision extraction; the vision
\* extraction begins only when every image has been classified and one was
\* kept, and is made once; the pipeline never steps back, and when extraction
\* is over every image has been classified once and the vision extraction
\* has been made exactly if an image was kept.
C31_HybridLinear ==
    [][hybrid =>
          /\ StepRank(pc') >= StepRank(pc)
          /\ img_index' >= img_index \/ pc = "step_a_wait"
          /\ CallBegins /\ gprompt' = "text" => pc = "step_a" /\ calls = {}
          /\ CallBegins /\ gprompt' = "classify" =>
                 /\ calls \in {{"text"}, {"text", "classify"}}
                 /\ img_index <= Len(images)
                 /\ Len(relevant_images) < img_index
                 /\ images_b64' \in {<<>>, <<images[img_index].id>>}
          /\ CallBegins /\ gprompt' = "vision" =>
                 /\ "text" \in calls /\ "vision" \notin calls
                 /\ img_index = Len(images) + 1
                 /\ relevant_images # <<>>
          /\ pc' = "step_b" /\ pc = "step_b_wait" => img_index' = img_index + 1
          /\ pc' = "extracted" =>
                 /\ img_index' = Len(images') + 1
                 /\ "text" \in calls'
                 /\ ("classify" \in calls') = (images' # <<>>)
                 /\ ("vision" \in calls') = (relevant_images' # <<>>)]_vars

\* a hybrid run that classified two images, kept one and made the vision
\* extraction
C31_Witness ==
    /\ hybrid
    /\ pc = "extracted"
    /\ Len(images) = 2
    /\ Len(relevant_images) = 1
    /\ calls = {"text", "classify", "vision"}

\* the text pass came back with no target at all and the vision extraction
\* named one
TargetMissing ==
    /\ hybrid
    /\ pc \in {"extracted", "returned", "done"}
    /\ "vision" \in calls
    /\ "target_material" \notin DOMAIN text_result
    /\ Truthy(Get(vision_result, "target_material"))

\* C37: when the text pass of a hybrid run yields a result with no
\* target_material and the vision extraction found a named target, the
\* merged record's target_material is the vision-derived one.
C37_GapFillAfterFailure ==
    TargetMissing =>
        Get(data, "target_material") = vision_result["target_material"]

\* the gateway calls of the run have all returned the empty result
AllEmpty ==
    /\ calls # {}
    /\ text_result = EmptyDict
    /\ vision_result = EmptyDict
    /\ relevant_images = <<>>

\* C38: when every gateway call made for a document returned the empty
\* result, process_paper has inserted no paper, synthesis, precursor or
\* condition row.
C38_NoDataNoRows ==
    pc \in {"returned", "done"} /\ AllEmpty => db = EmptyDb

\* an answer of the service that cannot be read: a body that is not a JSON
\* document, or a text whose first-"{"-to-last-"}" span is not valid JSON
Unreadable(r) ==
    \/ r.kind = "notjson"
    \/ r.kind = "text" /\ Recover(r.text).status = "error"

\* C36: no answer of the service makes the gateway raise: a call that raised
\* had sent no request; an unreadable answer counts as a failed attempt,
\* followed by the delay and the next attempt when one is left, and
\* otherwise by the return of {} with the attempts used up.
C36_NeverRaises ==
    /\ [](gpc = "raised" => requests = 0 /\ reply = NoReply)
    /\ [][gpc = "post" /\ requests' = requests + 1 /\ Unreadable(reply') =>
            /\ failures' = failures + 1
            /\ gpc' = IF attempt < attempts - 1 THEN "sleep" ELSE "ret"
            /\ gpc' = "ret" => gresult' = EmptyDict /\ requests' = attempts]_vars

\* a call that got two objects separated by commentary on its second and
\* last attempt, slept once before it, and returned {}
C36_Witness ==
    /\ gpc = "ret"
    /\ attempts = 2 /\ requests = 2 /\ sleeps = 1
    /\ reply.text = <<LB, RB, X, LB, RB>>
    /\ gresult = EmptyDict

\* a request to this model is in flight in some pool thread
InFlight(model) ==
    \E doc \in running :
        stage[doc].at \in (IF model = MODEL_TEXT THEN InTextCall
                           ELSE InVisionCall)

\* C32: in a hybrid run of process_query with more than one worker, no
\* request to the text model is in flight while a request to the vision
\* model is, and no request follows a request to the other model without a
\* release in between.
C32_SerializedSwitches ==
    entry = ENTRY_QUERY /\ hybrid /\ workers > 1 =>
        /\ ~(InFlight(MODEL_TEXT) /\ InFlight(MODEL_VISION))
        /\ ~unreleased_switch

\* the last call of download_pdf returned a path
PathReturned ==
    /\ last_call.service = "download"
    /\ last_call.answers # <<>>
    /\ last_call.answers[Len(last_call.answers)].kind \in {"exists", "complete"}

\* C40: the path a call of download_pdf returns is that of a file a download
\* wrote to the end, whatever calls for the same title came before.
C40_DownloadIntegrity ==
    PathReturned => files[last_call.arg[1]] = "complete"

\* how many times process_paper was started on the document
Starts(doc) ==
    Cardinality({i \in 1..Len(events) : events[i] = Event("paper", doc)})

\* every downloaded document is waiting, in a thread, or over
Submitted ==
    Downloaded = {queue[i] : i \in 1..Len(queue)} \cup running
                     \cup DOMAIN paper_outcome

\* C35: in process_query with W > 1 workers, no document is started twice,
\* at most W documents are in processing, the record of a document changes
\* only when the thread of that document gets the result of its own gateway
\* call, and when process_query has returned every downloaded document has
\* been started once and has ended, by returning or by raising.
C35_WorkerPool ==
    /\ [](entry = ENTRY_QUERY /\ workers > 1 =>
            /\ Cardinality(running) <= workers
            /\ \A doc \in 1..MaxDocs : Starts(doc) <= 1
            /\ running \cap DOMAIN paper_outcome = {}
            /\ DOMAIN stage = running
            /\ bpc = "pool" => Submitted
            /\ bpc \in {"returned", "done"} /\ results > 0 =>
                   /\ queue = <<>> /\ running = {}
                   /\ DOMAIN paper_outcome = Downloaded
                   /\ \A doc \in Downloaded : Starts(doc) = 1)
    /\ [][\A doc \in (DOMAIN stage) \cap (DOMAIN stage') :
              stage'[doc].data # stage[doc].data =>
                  /\ stage[doc].at \in InCall
                  /\ stage'[doc].at = AfterCall(stage[doc].at)
                  /\ stage'[doc].data \in {EmptyDict, [paper |-> doc]}]_vars

\* a hybrid run with two workers over three documents: the first document
\* has raised, the threads of the other two hold a record each, one past its
\* calls and one in a classification call
C35_Witness ==
    /\ entry = ENTRY_QUERY /\ workers = 2 /\ hybrid
    /\ bpc = "pool"
    /\ Len(pdf_paths) = 3
    /\ paper_outcome = [doc \in {1} |-> "raised"]
    /\ running = {2, 3}
    /\ stage[2] = Thread("extracted", [paper |-> 2])
    /\ stage[3] = Thread("step_b_call", [paper |-> 3])

\* how far analyze has come with the record
StageRank(at) ==
    CASE at = "start" -> 0
      [] at = "loop" -> 1
      [] at = "done" -> 2
      [] at = "chemicals" -> 3
      [] at = "validated" -> 4
      [] at = "analyzed" -> 5
      [] at = "paper_saved" -> 6
      [] OTHER -> 7

\* the stage a warning comes from: 1 the physical check, 2 the lookup, 3 the
\* judge
WarningStage(w) ==
    IF w.kind = "Chemical not found in PubChem" THEN 2
    ELSE IF w.kind \in {"Chemical Logic Error", "Missing Elements"} THEN 3
    ELSE 1

\* the name is what _clean_chemical_name returns for an extracted name
Canonical(name) ==
    /\ name = CleanChemicalName(name)
    /\ \E l \in PrecursorLists : \E i \in 1..Len(l) :
           name = CleanChemicalName(GetOr(l[i], "name", <<>>))

\* C34: analyze goes through normalization, identity resolution and the
\* judge in this order and never back; no lookup is made before the
\* normalization is over and the judge is not called before the lookups are;
\* every lookup is for a canonical name, the judge's prompt lists the
\* record's canonical names; the warnings of the physical check come first,
\* then the not-found warnings, then the judge's.
C34_StagesInOrder ==
    /\ [](/\ npc \in {"start", "loop", "raised"} => last_call = NoCall
          /\ npc \in {"done", "chemicals", "validated"} =>
                 last_call.service # "judge"
          /\ last_call.service = "pubchem" => Canonical(last_call.arg)
          /\ last_call.service = "judge" =>
                 /\ Len(last_call.arg.precursors) = Len(Precs)
                 /\ \A i \in 1..Len(Precs) :
                        /\ last_call.arg.precursors[i] = Precs[i]["name"]
                        /\ Canonical(Precs[i]["name"])
          /\ npc # "start" =>
                 LET ws == normalized["warnings"]
                 IN  /\ \A i, j \in 1..Len(ws) :
                            i < j => WarningStage(ws[i]) <= WarningStage(ws[j])
                     /\ \A i \in 1..Len(ws) :
                            WarningStage(ws[i]) <= StageRank(npc))
    /\ [][StageRank(npc') >= StageRank(npc)]_vars

\* an analysed record flagged by all three stages, whose judge was asked
\* about ethanol and ZnO
C34_Witness ==
    /\ npc = "analyzed"
    /\ last_call.service = "judge"
    /\ last_call.arg.precursors
           = <<<<"e", "t", "h", "a", "n", "o", "l">>, <<"Z", "n", "O">>, <<>>>>
    /\ {WarningStage(normalized["warnings"][i]) :
            i \in 1..Len(normalized["warnings"])} = {1, 2, 3}

\* C39: analyze raises on no record, and the record it returns has every
\* condition and every precursor of the record it was given.
C39_NeverRaisesKeepsAll ==
    /\ npc # "raised"
    /\ npc \in {"analyzed", "paper_saved", "saved"} =>
           /\ Len(GetOr(normalized, "conditions", <<>>))
                  = Len(GetOr(raw_data, "conditions", <<>>))
           /\ Len(Precs) = Len(GetOr(raw_data, "precursors", <<>>))

\* the warnings on the record under analysis: those of the record passed in
\* until _normalize_data has made its copy, those of the copy from then on
WarningsNow ==
    IF npc = "start" THEN GetOr(raw_data, "warnings", <<>>)
    ELSE normalized["warnings"]

IsPrefix(u, w) == Len(u) <= Len(w) /\ SubSeq(w, 1, Len(u)) = u

\* C33: no step of the analysis of a record, the first time or when the
\* record is analysed again, removes, reorders or resets a warning: the
\* warnings before the step are a prefix of the warnings after it.
C33_WarningsAppendOnly ==
    [][IsPrefix(WarningsNow, WarningsNow')]_vars
====
